---- MODULE Spec2Model ----
(***************************************************************************)
(* Model of the ingestion controller (src/src/rag/ingestion.ts), the       *)
(* agentic chunker (src/unnamed/part_002: extractJsonFromBackticks,        *)
(* isDocumentValidForChunking, generateDocumentChunks) and the helpers     *)
(* they call (queryDB, the Outline document source).                       *)
(*                                                                         *)
(* Text is a sequence of characters. A character is a one-symbol string;   *)
(* the characters that cannot be written inside a TLA+ string literal are  *)
(* named below (LF is the newline, BT the backtick, DQ the double quote,   *)
(* BSL the backslash).                                                     *)
(***************************************************************************)
EXTENDS Integers, Sequences, FiniteSets, Bags, TLC

LF == "LF"
CR == "CR"
TAB == "TAB"
SP == " "
BT == "BT"
DQ == "DQ"
BSL == "BSL"

(* JavaScript's \s and the characters String.prototype.trim removes. *)
WhiteSpace == {SP, LF, CR, TAB}

Digits == {"0", "1", "2", "3", "4", "5", "6", "7", "8", "9"}

DigitValue(c) ==
  CASE c = "0" -> 0 [] c = "1" -> 1 [] c = "2" -> 2 [] c = "3" -> 3 [] c = "4" -> 4
    [] c = "5" -> 5 [] c = "6" -> 6 [] c = "7" -> 7 [] c = "8" -> 8 [] c = "9" -> 9

Min(a, b) == IF a <= b THEN a ELSE b

Max(a, b) == IF a >= b THEN a ELSE b

(* s[i..] starts with pat *)
StartsAt(s, i, pat) ==
  /\ i >= 1
  /\ i + Len(pat) - 1 <= Len(s)
  /\ SubSeq(s, i, i + Len(pat) - 1) = pat

(* An optional JavaScript string: undefined, or a sequence of characters. *)
Undefined == [defined |-> FALSE, chars |-> <<>>]

Str(cs) == [defined |-> TRUE, chars |-> cs]

(* ---------------------------------------------------------------------- *)
(* String.prototype.trim: drops leading and trailing white space.          *)
(* ---------------------------------------------------------------------- *)
RECURSIVE trimStart(_)
trimStart(s) ==
  IF s # <<>> /\ Head(s) \in WhiteSpace THEN trimStart(Tail(s)) ELSE s

RECURSIVE trimEnd(_)
trimEnd(s) ==
  IF s # <<>> /\ s[Len(s)] \in WhiteSpace THEN trimEnd(SubSeq(s, 1, Len(s) - 1)) ELSE s

trim(s) == trimEnd(trimStart(s))

(* ---------------------------------------------------------------------- *)
(* parseInt(string) with no radix, for decimal text: skips leading white   *)
(* space, reads an optional sign and the longest run of digits; NaN when   *)
(* no digit is read.                                                       *)
(* ---------------------------------------------------------------------- *)
RECURSIVE parseDigits(_, _, _)
parseDigits(s, acc, seen) ==
  IF s # <<>> /\ Head(s) \in Digits
    THEN parseDigits(Tail(s), 10 * acc + DigitValue(Head(s)), TRUE)
    ELSE [nan |-> ~seen, n |-> acc]

parseInt(s) ==
  LET t == trimStart(s)
      neg == t # <<>> /\ Head(t) = "-"
      u == IF t # <<>> /\ Head(t) \in {"-", "+"} THEN Tail(t) ELSE t
      r == parseDigits(u, 0, FALSE)
  IN  [nan |-> r.nan, n |-> IF neg THEN 0 - r.n ELSE r.n]

(* /^(\n)+$/.test(text): no m flag, so $ is the end of the input. *)
onlyNewlines(s) == s # <<>> /\ \A k \in 1..Len(s) : s[k] = LF

(* /^\s*$/.test(text) *)
onlyWhiteSpace(s) == \A k \in 1..Len(s) : s[k] \in WhiteSpace

(* ---------------------------------------------------------------------- *)
(* isDocumentValidForChunking(document), with process.env.MAX_DOC_SIZE     *)
(* passed as maxDocSize (an optional string).                              *)
(* ---------------------------------------------------------------------- *)
(* variant: MAX_DOC_SIZE is not looked at *)
sizeLimitIgnored(text, maxDocSize) == FALSE

sizeLimitHit(text, maxDocSize) ==
  /\ maxDocSize.defined
  /\ maxDocSize.chars # <<>>
  /\ ~parseInt(maxDocSize.chars).nan
  /\ Len(text) > parseInt(maxDocSize.chars).n

isDocumentValidForChunking(document, maxDocSize) ==
  IF ~document.text.defined \/ document.text.chars = <<>> THEN FALSE
  ELSE IF onlyNewlines(document.text.chars) THEN FALSE
  ELSE IF sizeLimitHit(document.text.chars, maxDocSize) THEN FALSE
  ELSE LET trimmedText == trim(document.text.chars)
           hasOtherContent == Len(trimmedText) > 0 /\ ~onlyWhiteSpace(trimmedText)
       IN  hasOtherContent

(* ---------------------------------------------------------------------- *)
(* JSON.parse. A parsed value is a tagged record: JStr (decoded            *)
(* characters), JNum, JArr (elements in order), JObj (members in order),   *)
(* JNull, JTrue, JFalse. A parse result is [ok, val, pos]: pos is the      *)
(* index after the value; ok = FALSE stands for the SyntaxError thrown.    *)
(* Numbers are integers without fraction or exponent; string escapes are   *)
(* the two-character ones over the model's characters.                     *)
(* ---------------------------------------------------------------------- *)
JStr(cs) == [t |-> "string", s |-> cs]

JNum(n) == [t |-> "number", n |-> n]

JArr(elems) == [t |-> "array", a |-> elems]

JObj(members) == [t |-> "object", o |-> members]

JNull == [t |-> "null"]

JTrue == [t |-> "true"]

JFalse == [t |-> "false"]

SyntaxError == [ok |-> FALSE, val |-> JNull, pos |-> 0]

Parsed(v, p) == [ok |-> TRUE, val |-> v, pos |-> p]

At(s, i) == IF i >= 1 /\ i <= Len(s) THEN s[i] ELSE "EOF"

RECURSIVE skipWs(_, _)
skipWs(s, i) == IF At(s, i) \in WhiteSpace THEN skipWs(s, i + 1) ELSE i

Unescape(c) ==
  CASE c = DQ -> DQ [] c = BSL -> BSL [] c = "/" -> "/"
    [] c = "n" -> LF [] c = "t" -> TAB [] c = "r" -> CR
    [] OTHER -> "EOF"

(* s[i] is the first character after the opening quote *)
RECURSIVE parseStringBody(_, _, _)
parseStringBody(s, i, acc) ==
  LET c == At(s, i) IN
  IF c = DQ THEN Parsed(JStr(acc), i + 1)
  ELSE IF c = "EOF" \/ c \in {LF, CR, TAB} THEN SyntaxError
  ELSE IF c = BSL
    THEN IF Unescape(At(s, i + 1)) = "EOF" THEN SyntaxError
         ELSE parseStringBody(s, i + 2, Append(acc, Unescape(At(s, i + 1))))
  ELSE parseStringBody(s, i + 1, Append(acc, c))

RECURSIVE parseNumberDigits(_, _, _)
parseNumberDigits(s, i, acc) ==
  IF At(s, i) \in Digits
    THEN parseNumberDigits(s, i + 1, 10 * acc + DigitValue(At(s, i)))
    ELSE Parsed(JNum(acc), i)

(* an optional minus sign, then 0 or a digit run that does not start with 0 *)
parseNumber(s, i) ==
  LET neg == At(s, i) = "-"
      j == IF neg THEN i + 1 ELSE i
      r == IF At(s, j) = "0" THEN Parsed(JNum(0), j + 1)
           ELSE IF At(s, j) \in Digits THEN parseNumberDigits(s, j, 0)
           ELSE SyntaxError
  IN  IF r.ok /\ neg THEN Parsed(JNum(0 - r.val.n), r.pos) ELSE r

RECURSIVE parseValue(_, _)
RECURSIVE parseElements(_, _, _)
RECURSIVE parseMembers(_, _, _)

(* after "[" or after a ",": a value, then "," or "]" *)
parseElements(s, i, acc) ==
  LET v == parseValue(s, i) IN
  IF ~v.ok THEN SyntaxError
  ELSE LET j == skipWs(s, v.pos) IN
       IF At(s, j) = "," THEN parseElements(s, j + 1, Append(acc, v.val))
       ELSE IF At(s, j) = "]" THEN Parsed(JArr(Append(acc, v.val)), j + 1)
       ELSE SyntaxError

(* after "{" or after a ",": "key" : value, then "," or "}" *)
parseMembers(s, i, acc) ==
  LET k == skipWs(s, i) IN
  IF At(s, k) # DQ THEN SyntaxError
  ELSE LET key == parseStringBody(s, k + 1, <<>>) IN
       IF ~key.ok THEN SyntaxError
       ELSE LET c == skipWs(s, key.pos) IN
            IF At(s, c) # ":" THEN SyntaxError
            ELSE LET v == parseValue(s, c + 1) IN
                 IF ~v.ok THEN SyntaxError
                 ELSE LET j == skipWs(s, v.pos)
                          m == Append(acc, [k |-> key.val.s, v |-> v.val])
                      IN  IF At(s, j) = "," THEN parseMembers(s, j + 1, m)
                          ELSE IF At(s, j) = "}" THEN Parsed(JObj(m), j + 1)
                          ELSE SyntaxError

parseValue(s, i0) ==
  LET i == skipWs(s, i0)
      c == At(s, i)
  IN  IF c = DQ THEN parseStringBody(s, i + 1, <<>>)
      ELSE IF c = "[" THEN
             IF At(s, skipWs(s, i + 1)) = "]" THEN Parsed(JArr(<<>>), skipWs(s, i + 1) + 1)
             ELSE parseElements(s, i + 1, <<>>)
      ELSE IF c = "{" THEN
             IF At(s, skipWs(s, i + 1)) = "}" THEN Parsed(JObj(<<>>), skipWs(s, i + 1) + 1)
             ELSE parseMembers(s, i + 1, <<>>)
      ELSE IF c = "-" \/ c \in Digits THEN parseNumber(s, i)
      ELSE IF StartsAt(s, i, <<"n", "u", "l", "l">>) THEN Parsed(JNull, i + 4)
      ELSE IF StartsAt(s, i, <<"t", "r", "u", "e">>) THEN Parsed(JTrue, i + 4)
      ELSE IF StartsAt(s, i, <<"f", "a", "l", "s", "e">>) THEN Parsed(JFalse, i + 5)
      ELSE SyntaxError

(* JSON.parse(text): one value, then only white space up to the end *)
JSONparse(s) ==
  LET v == parseValue(s, 1) IN
  IF v.ok /\ skipWs(s, v.pos) = Len(s) + 1 THEN v ELSE SyntaxError

(* ---------------------------------------------------------------------- *)
(* /```json\s*\n([\s\S]*?)\n```/ .exec(input): the leftmost match. At a    *)
(* start, \s* is greedy (the longest run that still leaves a newline to    *)
(* match, backing off while the rest fails) and the group is lazy (up to   *)
(* the nearest newline followed by three backticks).                       *)
(* ---------------------------------------------------------------------- *)
(* variant: any fence opens a block, whatever its tag *)
FenceAny == <<BT, BT, BT>>

FenceJson == <<BT, BT, BT, "j", "s", "o", "n">>

FenceClose == <<LF, BT, BT, BT>>

RECURSIVE wsRunEnd(_, _)
wsRunEnd(s, i) == IF At(s, i) \in WhiteSpace THEN wsRunEnd(s, i + 1) ELSE i

SetMax(S) == CHOOSE m \in S : \A n \in S : n <= m

SetMin(S) == CHOOSE m \in S : \A n \in S : m <= n

(* the indexes e >= from where \n``` starts *)
closeAt(s, from) == {e \in from..Len(s) : StartsAt(s, e, FenceClose)}

(* the newline that ends \s*, for a match starting at i: the last newline  *)
(* of the white-space run after the tag from which a closing fence follows *)
tagNewlines(s, i) ==
  LET p == i + Len(FenceJson)
  IN  {k \in p..(wsRunEnd(s, p) - 1) : s[k] = LF /\ closeAt(s, k + 1) # {}}

matchStarts(s) == {i \in 1..Len(s) : StartsAt(s, i, FenceJson) /\ tagNewlines(s, i) # {}}

(* variant: the group is greedy, up to the last closing fence *)
codeBlockRegexExecGreedy(s) ==
  IF matchStarts(s) = {} THEN [matched |-> FALSE, group |-> <<>>]
  ELSE LET i == SetMin(matchStarts(s))
           k == SetMax(tagNewlines(s, i))
           e == SetMax(closeAt(s, k + 1))
       IN  [matched |-> TRUE, group |-> SubSeq(s, k + 1, e - 1)]

(* [matched, group]: group is match[1] *)
codeBlockRegexExec(s) ==
  IF matchStarts(s) = {} THEN [matched |-> FALSE, group |-> <<>>]
  ELSE LET i == SetMin(matchStarts(s))
           k == SetMax(tagNewlines(s, i))
           e == SetMin(closeAt(s, k + 1))
       IN  [matched |-> TRUE, group |-> SubSeq(s, k + 1, e - 1)]

(* ---------------------------------------------------------------------- *)
(* extractJsonFromBackticks(input, identifier): the array parsed from the  *)
(* first json block, the empty array otherwise. The identifier is only     *)
(* logged.                                                                 *)
(* ---------------------------------------------------------------------- *)
extractJsonFromBackticks(input) ==
  LET match == codeBlockRegexExec(input) IN
  IF ~match.matched \/ match.group = <<>> THEN <<>>
  ELSE LET parsedJson == JSONparse(match.group) IN
       IF ~parsedJson.ok THEN <<>>
       ELSE IF parsedJson.val.t = "array" THEN parsedJson.val.a
       ELSE <<>>


(* ---------------------------------------------------------------------- *)
(* generateDocumentChunks(document), with process.env.MAX_DOC_SIZE and the *)
(* behaviour of chain.invoke passed in: llm = [throws, content], content   *)
(* an optional string (response.content). The result is [raised, value]:   *)
(* raised = TRUE stands for a rejected promise.                            *)
(* ---------------------------------------------------------------------- *)
Return(v) == [raised |-> FALSE, value |-> v]

Raise == [raised |-> TRUE, value |-> <<>>]

JsUndefined == "(undefined)"

(* new Document({ pageContent: chunk, metadata: { ... } }) *)
Document(chunk, document) ==
  [pageContent |-> chunk,
   metadata |-> [id |-> document.id,
                 title |-> document.title,
                 parentDocumentId |-> document.parentDocumentId,
                 parentDocument |-> document.parentDocument,
                 collectionId |-> document.collectionId,
                 collection |-> document.collectionName]]

mapChunks(chunks, document) == [k \in 1..Len(chunks) |-> Document(chunks[k], document)]

(* the body of the try block: chain.invoke, response.content.toString(),   *)
(* extractJsonFromBackticks, chunks.map                                    *)
invokeAndExtract(document, llm) ==
  IF llm.throws THEN Raise
  ELSE IF ~llm.content.defined THEN Raise
  ELSE Return(mapChunks(extractJsonFromBackticks(llm.content.chars), document))

(* variant: no catch *)
rethrowChunkFailure(r) == r

(* catch (e) { console.error(...); return []; } *)
catchChunkFailure(r) == IF r.raised THEN Return(<<>>) ELSE r

generateDocumentChunks(document, maxDocSize, llm) ==
  IF ~isDocumentValidForChunking(document, maxDocSize) THEN Return(<<>>)
  ELSE catchChunkFailure(invokeAndExtract(document, llm))

(* ---------------------------------------------------------------------- *)
(* Bounds and the document source.                                         *)
(* ---------------------------------------------------------------------- *)

(* ingest's pageSize. The source sets it to 100; the model scales it down  *)
(* so that a corpus of a few documents spans several pages.                *)
pageSize == 2

MaxDocs == pageSize + 1

MaxTotal == 2 * pageSize + 1

(* the processes running ingest(): a first run, and a second run started  *)
(* once the first has ended                                                *)
Runs == {1, 2}

Ids == <<"d1", "d2", "d3", "d4", "d5", "d6", "d7", "d8">>

Titles == <<"Auth", "Billing", "Empty", "Deploy">>

TextPool ==
  << <<"a">>,
     <<"#", SP, "A", LF, "b">>,
     <<LF, LF>>,
     <<SP, "c", "d", SP>> >>

ParentPool == <<"", "p1", "", "p1">>

CollectionPool == <<"", "c1", "c1", "">>

Shape(n) == ((n - 1) % 4) + 1

(* the n-th document of the source, newest first *)
SourceDoc(n) ==
  [id |-> Ids[n],
   title |-> Titles[Shape(n)],
   text |-> Str(TextPool[Shape(n)]),
   parentDocumentId |-> ParentPool[Shape(n)],
   collectionId |-> CollectionPool[Shape(n)]]

(* documents.info: the response body for a document id *)
documentsInfo(id) == [data |-> [id |-> id, title |-> "Handbook"]]

(* collections.info: the response body for a collection id *)
collectionsInfo(id) == [data |-> [id |-> id, name |-> "Engineering"]]

(* property access on a JavaScript object: undefined when the key is absent *)
Field(obj, key) == IF key \in DOMAIN obj THEN obj[key] ELSE JsUndefined

(* requestDocumentById: response.data.data *)
requestDocumentById(documentId) == documentsInfo(documentId).data

(* requestCollectionById: response.data *)
requestCollectionById(collectionId) == collectionsInfo(collectionId)

ceil(a, b) == IF a % b = 0 THEN a \div b ELSE (a \div b) + 1

(* variant: the page number sent as the offset *)
offsetIsPage(page, size) == page

(* the offset requestLatestOutlineDocs sends *)
offsetOf(page, size) == page * size

(* requestLatestOutlineDocs({page, pageSize}) against a source holding     *)
(* docs and reporting total: response.data and response.pagination.total   *)
requestLatestOutlineDocs(docs, page, size, total) ==
  [data |-> SubSeq(docs, offsetOf(page, size) + 1, Min(Len(docs), offsetOf(page, size) + size)),
   pagination |-> [total |-> total]]

(* model output: a fenced block tagged json around body *)
Fence == <<BT, BT, BT>>

Block(body) == Fence \o <<"j", "s", "o", "n", LF>> \o body \o <<LF>> \o Fence

(* the outputs of the chunker model used during ingestion *)
TwoStrings == <<"[", DQ, "a", DQ, ",", SP, DQ, "b", DQ, "]">>

ChunkerResponses ==
  { [throws |-> TRUE, content |-> Undefined],
    [throws |-> FALSE, content |-> Str(<<"o", "k", LF>> \o Block(TwoStrings))],
    [throws |-> FALSE, content |-> Str(<<"n", "o">>)] }

(* ---------------------------------------------------------------------- *)
(* The vector store table outline_docs: a bag of rows.                     *)
(* ---------------------------------------------------------------------- *)
RECURSIVE SeqToBag(_)
SeqToBag(q) == IF q = <<>> THEN EmptyBag ELSE SetToBag({Head(q)}) (+) SeqToBag(Tail(q))

(* variant: the insert replaces the rows of the documents it writes *)
addDocumentsUpsert(table, generatedDocs) ==
  LET kept == {x \in BagToSet(table) :
                 \A k \in 1..Len(generatedDocs) : x.metadata.id # generatedDocs[k].metadata.id}
  IN  [row \in kept |-> table[row]] (+) SeqToBag(generatedDocs)

(* variant: the insert replaces the table, the last writer wins *)
addDocumentsReplacing(table, generatedDocs) == SeqToBag(generatedDocs)

(* vectorStore.addDocuments(generatedDocs): one insert of the whole batch *)
addDocuments(table, generatedDocs) == table (+) SeqToBag(generatedDocs)

(* SELECT * FROM outline_docs WHERE metadata->>'id' = id *)
RowsOf(table, id) ==
  [row \in {x \in BagToSet(table) : x.metadata.id = id} |-> table[row]]

(* queryDB: res.rows, or undefined when client.query throws (the catch     *)
(* logs and falls through)                                                 *)
queryDB(table, id, queryThrows) ==
  IF queryThrows THEN [defined |-> FALSE, rows |-> EmptyBag]
  ELSE [defined |-> TRUE, rows |-> RowsOf(table, id)]

(* variant: a failed query counts as loaded *)
documentLoadedWhenUndefined(documentExists) ==
  ~documentExists.defined \/ BagCardinality(documentExists.rows) > 0

(* variant: every document counts as loaded *)
documentAlwaysLoaded(documentExists) == TRUE

(* documentWasAlreadyLoaded: documentExists?.length *)
documentWasAlreadyLoaded(documentExists) ==
  documentExists.defined /\ BagCardinality(documentExists.rows) > 0


(* ---------------------------------------------------------------------- *)
(* State.                                                                  *)
(*   corpus      the documents the source lists, newest first              *)
(*   maxDocSize  process.env.MAX_DOC_SIZE                                   *)
(*   store       the rows of outline_docs                                  *)
(*   runs        one record per ingestion process: ingest's position pc,   *)
(*               the pages requested (fetched), the last response, the     *)
(*               first response's total, totalPages, the loop index i, the *)
(*               per-document tasks of loadDocsToVectorDB, the documents   *)
(*               handed to a task (handed), the store at the start and     *)
(*               loadDocsToVectorDB's counter i of the documents of the    *)
(*               page its tasks have completed (processed)                 *)
(*   call        a single call of a chunker function, of addDocuments, of  *)
(*               the tool-call handler or of the chat's handleInput, see   *)
(*               NoCall; under SpecServer the handlers of the tool calls   *)
(*               in progress                                               *)
(*   ragAgent    the server's this.ragAgent: "unset" until getRAG resolves *)
(*   rag         the invocation of the RAG workflow in progress            *)
(* ---------------------------------------------------------------------- *)
VARIABLES corpus, maxDocSize, store, runs, call, ragAgent, rag

vars == <<corpus, maxDocSize, store, runs, call, ragAgent, rag>>

(* call: one call of a function of the chunker taken alone (its arguments, *)
(* and its result once pc = "returned"); unused during ingestion            *)
NoCall == [op |-> "none", pc |-> "none"]

(* rag: no invocation of the workflow *)
NoInvocation == [pc |-> "none"]

NoCalls == [parent |-> 0, collection |-> 0, model |-> 0, write |-> 0]

NoResponse == [data |-> <<>>, pagination |-> [total |-> 0]]

(* response.pagination.total before the first response *)
NoTotal == -1

IdleRun ==
  [pc |-> "idle", fetched |-> <<>>, response |-> NoResponse, total |-> NoTotal,
   totalPages |-> 0, i |-> 0, tasks |-> <<>>, handed |-> EmptyBag,
   storeAtStart |-> EmptyBag, endedAs |-> "none", processed |-> 0]

Init ==
  /\ \E n \in 0..MaxDocs : corpus = [k \in 1..n |-> SourceDoc(k)]
  /\ maxDocSize \in {Undefined, Str(<<"3">>)}
  /\ store = EmptyBag
  /\ runs = [r \in Runs |-> IdleRun]
  /\ call = NoCall
  /\ ragAgent = "unset"
  /\ rag = NoInvocation

Ended(run) == run.pc \in {"finished", "exited", "archived"}

InFlight(t) == t.pc \in {"check", "parent", "collection", "chunk", "write"}

(* the extendedDocument a task has built so far *)
ExtendedDocument(t) ==
  [id |-> t.document.id,
   title |-> t.document.title,
   text |-> t.document.text,
   parentDocumentId |-> t.document.parentDocumentId,
   collectionId |-> t.document.collectionId,
   parentDocument |-> t.parentDocument,
   collectionName |-> t.collectionName]

(* variant: parentDocument and collectionName start undefined *)
NewTaskNamesUnset(document, page) ==
  [page |-> page, document |-> document, pc |-> "check",
   parentDocument |-> JsUndefined, collectionName |-> JsUndefined, generatedDocs |-> <<>>,
   found |-> FALSE, loaded |-> FALSE, calls |-> NoCalls]

(* docs.map(async (document) => ...): the task runs up to its first await, *)
(* the existence query                                                     *)
NewTask(document, page) ==
  [page |-> page, document |-> document, pc |-> "check",
   parentDocument |-> "", collectionName |-> "", generatedDocs |-> <<>>,
   found |-> FALSE, loaded |-> FALSE, calls |-> NoCalls]

(* variant: addDocuments is called whatever the length of the batch *)
afterChunksAlwaysWrites(t, generatedDocs) ==
  [t EXCEPT !.pc = "write", !.generatedDocs = generatedDocs, !.calls.write = @ + 1]

(* if (generatedDocs.length) await vectorStore.addDocuments(generatedDocs) *)
afterChunks(t, generatedDocs) ==
  IF Len(generatedDocs) > 0
    THEN [t EXCEPT !.pc = "write", !.generatedDocs = generatedDocs, !.calls.write = @ + 1]
    ELSE [t EXCEPT !.pc = "done", !.generatedDocs = generatedDocs]

(* variant: chain.invoke is awaited before the validator is consulted *)
startChunksAlwaysInvokes(t) == [t EXCEPT !.pc = "chunk", !.calls.model = @ + 1]

(* generateDocumentChunks is entered: an invalid document returns [] at    *)
(* once, a valid one awaits chain.invoke                                   *)
startChunks(t) ==
  IF isDocumentValidForChunking(ExtendedDocument(t), maxDocSize)
    THEN [t EXCEPT !.pc = "chunk", !.calls.model = @ + 1]
    ELSE afterChunks(t, <<>>)

(* if (document.collectionId) await requestCollectionById(...) *)
startCollection(t) ==
  IF t.document.collectionId # ""
    THEN [t EXCEPT !.pc = "collection", !.calls.collection = @ + 1]
    ELSE startChunks(t)

(* if (document.parentDocumentId) await requestDocumentById(...) *)
startParent(t) ==
  IF t.document.parentDocumentId # ""
    THEN [t EXCEPT !.pc = "parent", !.calls.parent = @ + 1]
    ELSE startCollection(t)

(* if (await documentWasAlreadyLoaded(document)) { ...; return; } *)
afterExistenceCheck(t, loaded) ==
  IF loaded THEN [t EXCEPT !.pc = "done", !.loaded = TRUE]
  ELSE startParent(t)

(* variant: the rejection is caught at the task boundary *)
PromiseAllSwallows(pc) == pc

(* a rejected task rejects Promise.all, loadDocsToVectorDB and ingest:     *)
(* nothing between the task and ingest() catches                           *)
PromiseAllRejects(pc) == IF pc = "loading" THEN "failed" ELSE pc

(* variant: Promise.all never resolves *)
PromiseAllNeverResolves(tasks) == FALSE

(* variant: the tasks are started but not awaited *)
PromiseAllNotAwaited(tasks) == TRUE

(* await Promise.all(...) resolves when every task has resolved *)
PromiseAllResolved(tasks) == \A k \in 1..Len(tasks) : tasks[k].pc = "done"

(* variant: a rejected task cancels the tasks still in flight *)
SetTaskCancelling(run, k, t) ==
  [run EXCEPT !.tasks = [j \in 1..Len(@) |->
                           IF j = k THEN t
                           ELSE IF t.pc = "failed" /\ @[j].pc \in {"check", "parent", "collection", "chunk", "write"}
                             THEN [@[j] EXCEPT !.pc = "killed"]
                           ELSE @[j]],
              !.processed = IF t.pc = "done" THEN @ + 1 ELSE @,
              !.pc = IF t.pc = "failed" THEN PromiseAllRejects(@) ELSE @]

(* a task has moved on: its record changes; a task that returns has       *)
(* incremented the counter i its page shares (i++), a task that rejects    *)
(* rejects Promise.all                                                     *)
SetTask(run, k, t) ==
  [run EXCEPT !.tasks[k] = t,
              !.processed = IF t.pc = "done" THEN @ + 1 ELSE @,
              !.pc = IF t.pc = "failed" THEN PromiseAllRejects(@) ELSE @]

(* variant: Math.floor *)
totalPagesFloor(total, size) == total \div size

(* Math.ceil(response.pagination.total / pageSize) *)
totalPagesOf(total, size) == ceil(total, size)

(* ingest after await loadDocsToVectorDB(response.data): the test          *)
(* total > pageSize after the first page, then the for loop                *)
ingestContinue(run) ==
  LET more == IF run.i = 0 THEN run.total > pageSize ELSE TRUE
      tp == IF run.i = 0
              THEN (IF more THEN totalPagesOf(run.total, pageSize) ELSE 0)
              ELSE run.totalPages
      next == run.i + 1
  IN  IF more /\ next < tp
        THEN [run EXCEPT !.pc = "fetching", !.i = next, !.totalPages = tp,
                         !.fetched = Append(@, next)]
        ELSE [run EXCEPT !.pc = "finished", !.totalPages = tp]

(* ---------------------------------------------------------------------- *)
(* Actions.                                                                *)
(* ---------------------------------------------------------------------- *)

(* a process starts ingest(): page 0 is requested. Of a process that has   *)
(* ended only how it ended is kept.                                        *)
StartRun(r) ==
  /\ runs[r].pc = "idle"
  /\ IF r = 1 THEN TRUE ELSE Ended(runs[r - 1])
  /\ runs' = [q \in Runs |->
                IF q = r THEN [IdleRun EXCEPT !.pc = "fetching", !.fetched = <<0>>,
                                              !.storeAtStart = store]
                ELSE IF runs[q].pc \in {"finished", "exited"}
                  THEN [IdleRun EXCEPT !.pc = "archived", !.endedAs = runs[q].pc]
                ELSE runs[q]]
  /\ UNCHANGED <<corpus, maxDocSize, store, call, ragAgent, rag>>

(* the totals a response may report: page boundaries, the size of the      *)
(* corpus, and after the first response the same total again or none       *)
Totals(run) ==
  IF run.i = 0
    THEN {0, pageSize, pageSize + 1, 2 * pageSize, MaxTotal} \cup {Len(corpus)}
    ELSE {run.total, 0}

(* requestLatestOutlineDocs answers; the total it reports is the source's *)
PageResponse(r) ==
  /\ runs[r].pc = "fetching"
  /\ \E total \in Totals(runs[r]) :
       LET response == requestLatestOutlineDocs(corpus, runs[r].i, pageSize, total)
       IN  runs' = [runs EXCEPT ![r].pc = "initializing",
                                ![r].response = response,
                                ![r].total = IF runs[r].i = 0 THEN response.pagination.total ELSE @]
  /\ UNCHANGED <<corpus, maxDocSize, store, call, ragAgent, rag>>

(* requestLatestOutlineDocs throws: ingest rejects *)
PageRequestFails(r) ==
  /\ runs[r].pc = "fetching"
  /\ runs' = [runs EXCEPT ![r].pc = "failed"]
  /\ UNCHANGED <<corpus, maxDocSize, store, call, ragAgent, rag>>

(* loadDocsToVectorDB: PGVectorStore.initialize answers, docs.map starts   *)
(* one task per document                                                   *)
LoadDocs(r) ==
  /\ runs[r].pc = "initializing"
  /\ LET docs == runs[r].response.data
         started == [k \in 1..Len(docs) |-> NewTask(docs[k], runs[r].i)]
     IN  runs' = [runs EXCEPT ![r].pc = "loading",
                              ![r].processed = 0,
                              ![r].tasks = @ \o started,
                              ![r].handed = @ (+) SeqToBag([k \in 1..Len(docs) |-> docs[k].id])]
  /\ UNCHANGED <<corpus, maxDocSize, store, call, ragAgent, rag>>

(* PGVectorStore.initialize throws *)
InitializeFails(r) ==
  /\ runs[r].pc = "initializing"
  /\ runs' = [runs EXCEPT ![r].pc = "failed"]
  /\ UNCHANGED <<corpus, maxDocSize, store, call, ragAgent, rag>>

Running(r, k, stage) ==
  /\ runs[r].pc \in {"loading", "failed"}
  /\ k \in 1..Len(runs[r].tasks)
  /\ runs[r].tasks[k].pc = stage

TaskFails(r, k) ==
  /\ runs' = [runs EXCEPT ![r] = SetTask(runs[r], k, [runs[r].tasks[k] EXCEPT !.pc = "failed"])]
  /\ UNCHANGED <<corpus, maxDocSize, store, call, ragAgent, rag>>

(* the existence query answers (or client.query throws, which queryDB      *)
(* swallows)                                                               *)
ExistenceQuery(r, k) ==
  /\ Running(r, k, "check")
  /\ \E queryThrows \in BOOLEAN :
       LET t == runs[r].tasks[k]
           documentExists == queryDB(store, t.document.id, queryThrows)
           seen == [t EXCEPT !.found = BagCardinality(RowsOf(store, t.document.id)) > 0]
       IN  runs' = [runs EXCEPT ![r] =
             SetTask(runs[r], k, afterExistenceCheck(seen, documentWasAlreadyLoaded(documentExists)))]
  /\ UNCHANGED <<corpus, maxDocSize, store, call, ragAgent, rag>>

(* pool.connect throws, outside queryDB's try *)
ConnectFails(r, k) == Running(r, k, "check") /\ TaskFails(r, k)

ParentResponse(r, k) ==
  /\ Running(r, k, "parent")
  /\ LET t == runs[r].tasks[k]
         parentDocument == requestDocumentById(t.document.parentDocumentId)
     IN  runs' = [runs EXCEPT ![r] =
           SetTask(runs[r], k, startCollection([t EXCEPT !.parentDocument = Field(parentDocument, "title")]))]
  /\ UNCHANGED <<corpus, maxDocSize, store, call, ragAgent, rag>>

ParentRequestFails(r, k) == Running(r, k, "parent") /\ TaskFails(r, k)

CollectionResponse(r, k) ==
  /\ Running(r, k, "collection")
  /\ LET t == runs[r].tasks[k]
         collection == requestCollectionById(t.document.collectionId)
     IN  runs' = [runs EXCEPT ![r] =
           SetTask(runs[r], k, startChunks([t EXCEPT !.collectionName = Field(collection, "name")]))]
  /\ UNCHANGED <<corpus, maxDocSize, store, call, ragAgent, rag>>

CollectionRequestFails(r, k) == Running(r, k, "collection") /\ TaskFails(r, k)

(* chain.invoke settles and generateDocumentChunks returns *)
ChunkerResponse(r, k) ==
  /\ Running(r, k, "chunk")
  /\ \E llm \in ChunkerResponses :
       LET t == runs[r].tasks[k]
           generatedDocs == generateDocumentChunks(ExtendedDocument(t), maxDocSize, llm)
       IN  runs' = [runs EXCEPT ![r] =
             SetTask(runs[r], k,
                     IF generatedDocs.raised THEN [t EXCEPT !.pc = "failed"]
                     ELSE afterChunks(t, generatedDocs.value))]
  /\ UNCHANGED <<corpus, maxDocSize, store, call, ragAgent, rag>>

(* vectorStore.addDocuments has inserted the batch *)
WriteDone(r, k) ==
  /\ Running(r, k, "write")
  /\ store' = addDocuments(store, runs[r].tasks[k].generatedDocs)
  /\ runs' = [runs EXCEPT ![r] = SetTask(runs[r], k, [runs[r].tasks[k] EXCEPT !.pc = "done"])]
  /\ UNCHANGED <<corpus, maxDocSize, call, ragAgent, rag>>

WriteFails(r, k) == Running(r, k, "write") /\ TaskFails(r, k)

(* Promise.all resolves and ingest goes on *)
PageDone(r) ==
  /\ runs[r].pc = "loading"
  /\ PromiseAllResolved(runs[r].tasks)
  /\ runs' = [runs EXCEPT ![r] = ingestContinue(runs[r])]
  /\ UNCHANGED <<corpus, maxDocSize, store, call, ragAgent, rag>>

(* ingest() at module level is neither awaited nor caught: its rejection   *)
(* is unhandled and ends the process, with it the tasks still in flight    *)
ProcessExit(r) ==
  /\ runs[r].pc = "failed"
  /\ runs' = [runs EXCEPT ![r].pc = "exited",
                          ![r].tasks = [k \in 1..Len(@) |->
                             IF InFlight(@[k]) THEN [@[k] EXCEPT !.pc = "killed"] ELSE @[k]]]
  /\ UNCHANGED <<corpus, maxDocSize, store, call, ragAgent, rag>>

(* the positions a task of a run can have *)
Slots == 1..MaxDocs

Next ==
  \/ \E r \in Runs : StartRun(r)
  \/ \E r \in Runs : PageResponse(r)
  \/ \E r \in Runs : PageRequestFails(r)
  \/ \E r \in Runs : LoadDocs(r)
  \/ \E r \in Runs : InitializeFails(r)
  \/ \E r \in Runs : PageDone(r)
  \/ \E r \in Runs : ProcessExit(r)
  \/ \E r \in Runs, k \in Slots : ExistenceQuery(r, k)
  \/ \E r \in Runs, k \in Slots : ConnectFails(r, k)
  \/ \E r \in Runs, k \in Slots : ParentResponse(r, k)
  \/ \E r \in Runs, k \in Slots : ParentRequestFails(r, k)
  \/ \E r \in Runs, k \in Slots : CollectionResponse(r, k)
  \/ \E r \in Runs, k \in Slots : CollectionRequestFails(r, k)
  \/ \E r \in Runs, k \in Slots : ChunkerResponse(r, k)
  \/ \E r \in Runs, k \in Slots : WriteDone(r, k)
  \/ \E r \in Runs, k \in Slots : WriteFails(r, k)

Spec == Init /\ [][Next]_vars


(* ---------------------------------------------------------------------- *)
(* Properties of ingestion, checked under Spec.                            *)
(* ---------------------------------------------------------------------- *)
TaskIndex(r) == 1..Len(runs[r].tasks)

Failed(r) == {k \in TaskIndex(r) : runs[r].tasks[k].pc = "failed"}

(* the pages 0 .. n-1, in order *)
Pages(n) == [p \in 1..n |-> p - 1]

(* the number of page fetches of a run whose first response reports total *)
ExpectedFetches(total) == Max(1, ceil(total, pageSize))

(* what a completed task has done, given its own document only *)
CompletedAsAlone(t, table) ==
  IF t.loaded THEN t.calls = NoCalls /\ t.generatedDocs = <<>>
  ELSE /\ t.calls.parent = (IF t.document.parentDocumentId # "" THEN 1 ELSE 0)
       /\ t.calls.collection = (IF t.document.collectionId # "" THEN 1 ELSE 0)
       /\ t.calls.model = (IF isDocumentValidForChunking(ExtendedDocument(t), maxDocSize) THEN 1 ELSE 0)
       /\ t.calls.write = (IF Len(t.generatedDocs) > 0 THEN 1 ELSE 0)
       /\ \A j \in 1..Len(t.generatedDocs) :
            /\ t.generatedDocs[j].metadata.id = t.document.id
            /\ CopiesIn(t.generatedDocs[j], table) >= 1

C1_FailureStep(r) ==
  LET old == runs[r].tasks
      new == runs'[r].tasks
  IN  /\ \A k \in 1..Min(Len(old), Len(new)) :
           (old[k].pc # "failed" /\ new[k].pc = "failed") =>
             /\ runs'[r].pc = "failed"
             /\ \A j \in 1..Len(old) : j # k => new[j] = old[j]
      /\ \A k \in 1..Len(new) : new[k].pc = "done" => CompletedAsAlone(new[k], store')

C3_SecondRunKeepsRows ==
  \A r \in Runs :
    (r > 1 /\ runs[r - 1].endedAs = "finished" /\ runs[r].pc = "finished") =>
      \A n \in 1..Len(corpus) :
        BagCardinality(RowsOf(runs[r].storeAtStart, corpus[n].id)) > 0 =>
          RowsOf(store, corpus[n].id) = RowsOf(runs[r].storeAtStart, corpus[n].id)

(* C4: the pages requested are 0, 1, ... in order, each once; never more   *)
(* than max(1, ceil(T / pageSize)) for the first response's total T, and   *)
(* exactly that many when ingest reaches its end, whatever later           *)
(* responses report.                                                       *)
C4_PageFetches ==
  \A r \in Runs :
    runs[r].total # NoTotal =>
      /\ runs[r].fetched = Pages(Len(runs[r].fetched))
      /\ Len(runs[r].fetched) <= ExpectedFetches(runs[r].total)
      /\ runs[r].pc = "finished" => Len(runs[r].fetched) = ExpectedFetches(runs[r].total)

(* C4 witness: a run ended after two fetches for a total of pageSize + 1,  *)
(* its second response reporting another total.                            *)
C4_Witness ==
  \E r \in Runs :
    /\ runs[r].pc = "finished"
    /\ runs[r].total = pageSize + 1
    /\ runs[r].fetched = <<0, 1>>
    /\ runs[r].response.pagination.total # runs[r].total

(* C5: when the first response's total is the size of the (unchanged)      *)
(* corpus, no document is handed to a task twice, each task handed is one  *)
(* task started, and at the end of ingest every document has been handed   *)
(* to exactly one task.                                                    *)
C5_EachDocumentOnce ==
  \A r \in Runs :
    runs[r].total = Len(corpus) =>
      \A n \in 1..Len(corpus) :
        /\ CopiesIn(corpus[n].id, runs[r].handed) <= 1
        /\ Cardinality({k \in TaskIndex(r) : runs[r].tasks[k].document.id = corpus[n].id})
             = CopiesIn(corpus[n].id, runs[r].handed)
        /\ runs[r].pc = "finished" => CopiesIn(corpus[n].id, runs[r].handed) = 1

(* C5 witness: a run over a corpus of more than one page has ended.        *)
C5_Witness ==
  \E r \in Runs :
    /\ runs[r].pc = "finished"
    /\ Len(corpus) > pageSize
    /\ runs[r].total = Len(corpus)
    /\ Len(runs[r].tasks) = Len(corpus)

(* C6: pages are processed one after another: the tasks in flight belong   *)
(* to the page being loaded, and while a page is being requested every     *)
(* task started so far has completed.                                      *)
C6_PagesSequential ==
  \A r \in Runs :
    /\ \A k \in TaskIndex(r) :
         InFlight(runs[r].tasks[k]) =>
           /\ runs[r].tasks[k].page = runs[r].i
           /\ runs[r].pc \in {"loading", "failed"}
    /\ runs[r].pc \in {"fetching", "initializing"} =>
         \A k \in TaskIndex(r) : runs[r].tasks[k].pc = "done"

(* C6 witness: the second page is being requested after a full first page. *)
C6_Witness ==
  \E r \in Runs :
    /\ runs[r].pc = "fetching"
    /\ runs[r].i = 1
    /\ Len(runs[r].tasks) = pageSize

(* C7 as stated: a document for which the store holds a row with its id    *)
(* when it is checked is skipped: no parent or collection fetch, no model  *)
(* invocation, no write.                                                   *)
C7_LoadedDocumentSkipped ==
  \A r \in Runs : \A k \in TaskIndex(r) :
    (runs[r].tasks[k].pc # "check" /\ runs[r].tasks[k].found) =>
      /\ runs[r].tasks[k].calls = NoCalls
      /\ runs[r].tasks[k].pc \in {"done", "killed"}


(* ---------------------------------------------------------------------- *)
(* Calls of the chunker's functions taken alone, under SpecChunker.        *)
(* The inputs carry what they are (kind, and for an array of strings the   *)
(* strings written in it), stated when the input is built.                 *)
(* ---------------------------------------------------------------------- *)
Quoted(cs) == <<DQ>> \o cs \o <<DQ>>

StringArrays ==
  { [text |-> TwoStrings, kind |-> "strings", strs |-> << <<"a">>, <<"b">> >>],
    [text |-> <<"[">> \o Quoted(<<"b">>) \o <<",">> \o Quoted(<<"a">>) \o <<"]">>,
     kind |-> "strings", strs |-> << <<"b">>, <<"a">> >>],
    [text |-> <<"[", "]">>, kind |-> "strings", strs |-> <<>>],
    [text |-> <<"[", LF, SP>> \o Quoted(<<"a">>) \o <<LF, "]">>,
     kind |-> "strings", strs |-> << <<"a">> >>],
    [text |-> <<"[">> \o Quoted(<<"a", BSL, DQ, "b">>) \o <<"]">>,
     kind |-> "strings", strs |-> << <<"a", DQ, "b">> >>],
    [text |-> <<"[">> \o Quoted(<<"x", BSL, "n", "y">>) \o <<",">> \o Quoted(<<>>) \o <<",">>
                \o Quoted(<<"x", SP, "y">>) \o <<"]">>,
     kind |-> "strings", strs |-> << <<"x", LF, "y">>, <<>>, <<"x", SP, "y">> >>] }

NonArrays ==
  { [text |-> t, kind |-> "nonarray", strs |-> <<>>] :
      t \in { <<"{">> \o Quoted(<<"a">>) \o <<":">> \o Quoted(<<"b">>) \o <<"}">>,
              <<"{", "}">>,
              Quoted(<<"a">>),
              <<"1">>,
              <<"n", "u", "l", "l">> } }

Unparsable ==
  { [text |-> t, kind |-> "unparsable", strs |-> <<>>] :
      t \in { <<"[">> \o Quoted(<<"a">>) \o <<",", "]">>,
              <<"[">> \o Quoted(<<"a">>),
              <<"[", "a", "]">>,
              <<"[">> \o Quoted(<<"a">>) \o <<SP>> \o Quoted(<<"b">>) \o <<"]">>,
              <<"[">> \o Quoted(<<"a", LF>>) \o <<"]">>,
              <<"[", "0", "1", "]">>,
              TwoStrings \o <<"x">>,
              <<SP>> } }

MixedArrays ==
  { [text |-> t, kind |-> "mixed", strs |-> <<>>] :
      t \in { <<"[", "1", "]">>,
              <<"[">> \o Quoted(<<"a">>) \o <<",", "n", "u", "l", "l", "]">>,
              <<"[", "[">> \o Quoted(<<"a">>) \o <<"]", "]">>,
              <<"[", "{", "}", "]">> } }

Bodies == StringArrays \cup NonArrays \cup Unparsable \cup MixedArrays

Pres ==
  { <<>>,
    <<"h", "i", LF>>,
    <<BT, "j", "s", "o", "n", BT, SP>>,
    Fence \o <<LF, "x", LF>> \o Fence \o <<LF>> }

TagSpaces == { <<>>, <<SP>>, <<CR>>, <<LF>> }

Posts ==
  { <<>>,
    <<LF, "b", "y", "e">>,
    <<LF>> \o Block(<<"{", "}">>),
    <<LF>> \o Block(<<"[">> \o Quoted(<<"z">>) \o <<"]">>) }

(* a json-tagged fenced block holding body, with text around it *)
Framed(pre, tagSpace, body, post) ==
  [input |-> pre \o Fence \o <<"j", "s", "o", "n">> \o tagSpace \o <<LF>> \o body.text
               \o <<LF>> \o Fence \o post,
   kind |-> body.kind, strs |-> body.strs]

BlockCases ==
  { Framed(pre, tagSpace, body, post) :
      pre \in Pres, tagSpace \in TagSpaces, body \in Bodies, post \in Posts }

(* inputs without a json-tagged fenced block: no fence, an untagged fence, *)
(* another tag, text after the tag on its line, no closing fence, the      *)
(* closing fence not on a line of its own                                  *)
NoBlockInputs(body) ==
  { body,
    Fence \o <<LF>> \o body \o <<LF>> \o Fence,
    Fence \o <<"j", "s", LF>> \o body \o <<LF>> \o Fence,
    Fence \o <<"j", "s", "o", "n", SP>> \o body \o <<LF>> \o Fence,
    Fence \o <<"j", "s", "o", "n", LF>> \o body,
    Fence \o <<"j", "s", "o", "n", LF>> \o body \o Fence }

NoBlockCases ==
  { [input |-> t, kind |-> "noblock", strs |-> <<>>] :
      t \in {<<>>} \cup UNION { NoBlockInputs(body.text) : body \in StringArrays \cup NonArrays } }

ExtractCases == BlockCases \cup NoBlockCases

(* values of process.env.MAX_DOC_SIZE, with the ceiling each configures    *)
NoCeiling == -1

EnvCases ==
  { [raw |-> Undefined, ceiling |-> NoCeiling],
    [raw |-> Str(<<>>), ceiling |-> NoCeiling],
    [raw |-> Str(<<"n", "o">>), ceiling |-> NoCeiling],
    [raw |-> Str(<<"0">>), ceiling |-> 0],
    [raw |-> Str(<<"1">>), ceiling |-> 1],
    [raw |-> Str(<<"3">>), ceiling |-> 3],
    [raw |-> Str(<<"4">>), ceiling |-> 4],
    [raw |-> Str(<<SP, "5">>), ceiling |-> 5],
    [raw |-> Str(<<"1", "0">>), ceiling |-> 10] }

CeilingOf(raw) == (CHOOSE c \in EnvCases : c.raw = raw).ceiling

Texts ==
  { Undefined,
    Str(<<>>),
    Str(<<LF>>),
    Str(<<LF, LF, LF>>),
    Str(<<SP>>),
    Str(<<SP, LF, TAB>>),
    Str(<<CR, LF>>),
    Str(<<SP, SP, SP, SP, SP>>),
    Str(<<"a">>),
    Str(<<SP, "a", SP>>),
    Str(<<LF, "a", LF>>),
    Str(<<"a", SP, "b">>),
    Str(<<"a", "b", "c", "d">>),
    Str(<<SP, SP, "a", SP, SP>>),
    Str(<<"#", SP, "A", LF, "b", "c">>) }

TextDocument(text) ==
  [id |-> "d1", title |-> "Auth", text |-> text, parentDocumentId |-> "p1",
   collectionId |-> "", parentDocument |-> "Handbook", collectionName |-> ""]

(* the behaviours of chain.invoke: it throws, it answers without content,  *)
(* or it answers with a text                                               *)
LlmCases ==
  { [throws |-> TRUE, content |-> Undefined, kind |-> "throws", strs |-> <<>>],
    [throws |-> FALSE, content |-> Undefined, kind |-> "nocontent", strs |-> <<>>] }
  \cup { [throws |-> FALSE, content |-> Str(c.input), kind |-> c.kind, strs |-> c.strs] :
           c \in NoBlockCases \cup { Framed(<<"h", "i", LF>>, <<>>, body, <<>>) : body \in Bodies } }

InitCalls(calls, envs) ==
  /\ corpus = <<>>
  /\ store = EmptyBag
  /\ runs = [r \in Runs |-> IdleRun]
  /\ maxDocSize \in envs
  /\ call \in calls
  /\ ragAgent = "unset"
  /\ rag = NoInvocation

InitChunker ==
  \/ InitCalls({ [op |-> "isDocumentValidForChunking", pc |-> "called",
                  document |-> TextDocument(text), valid |-> FALSE] : text \in Texts },
               { c.raw : c \in EnvCases })
  \/ InitCalls({ [op |-> "extractJsonFromBackticks", pc |-> "called",
                  case |-> c, chunks |-> <<>>] : c \in ExtractCases },
               { Undefined })
  \/ InitCalls({ [op |-> "generateDocumentChunks", pc |-> "called",
                  document |-> TextDocument(text), llm |-> llm, result |-> Return(<<>>)] :
                    text \in {Str(<<"a", SP, "b">>), Str(<<LF, LF>>), Undefined}, llm \in LlmCases },
               { Undefined, Str(<<"1">>) })

Validate ==
  /\ call.op = "isDocumentValidForChunking"
  /\ call.pc = "called"
  /\ call' = [call EXCEPT !.pc = "returned",
                          !.valid = isDocumentValidForChunking(call.document, maxDocSize)]
  /\ UNCHANGED <<corpus, maxDocSize, store, runs, ragAgent, rag>>

Extract ==
  /\ call.op = "extractJsonFromBackticks"
  /\ call.pc = "called"
  /\ call' = [call EXCEPT !.pc = "returned",
                          !.chunks = extractJsonFromBackticks(call.case.input)]
  /\ UNCHANGED <<corpus, maxDocSize, store, runs, ragAgent, rag>>

Chunk ==
  /\ call.op = "generateDocumentChunks"
  /\ call.pc = "called"
  /\ call' = [call EXCEPT !.pc = "returned",
                          !.result = generateDocumentChunks(call.document, maxDocSize,
                                       [throws |-> call.llm.throws, content |-> call.llm.content])]
  /\ UNCHANGED <<corpus, maxDocSize, store, runs, ragAgent, rag>>

NextChunker == Validate \/ Extract \/ Chunk

SpecChunker == InitChunker /\ [][NextChunker]_vars

Returned(op) == call.op = op /\ call.pc = "returned"

(* C8: generateDocumentChunks never raises: for every document and every   *)
(* behaviour of the model it returns a sequence, and the sequence is empty *)
(* when the validator rejects the document, when the model invocation      *)
(* throws or yields no content, and when the output holds no json block,   *)
(* a block that is not an array or a block that does not parse.            *)
C8_ChunkerNeverRaises ==
  Returned("generateDocumentChunks") =>
    /\ ~call.result.raised
    /\ ( \/ ~isDocumentValidForChunking(call.document, maxDocSize)
         \/ call.llm.kind \in {"throws", "nocontent", "noblock", "nonarray", "unparsable"} )
         => call.result.value = <<>>

(* C8 witness: the model threw for a valid document and the chunker        *)
(* returned the empty sequence.                                            *)
C8_Witness ==
  /\ Returned("generateDocumentChunks")
  /\ isDocumentValidForChunking(call.document, maxDocSize)
  /\ call.llm.throws
  /\ call.result = Return(<<>>)

Trimmed(text) == IF text.defined THEN trim(text.chars) ELSE <<>>

(* C9: isDocumentValidForChunking is false for a text that is absent,      *)
(* empty, only newlines or only white space; false for a text longer than  *)
(* the configured MAX_DOC_SIZE whatever its content; true for a text whose *)
(* trimmed form is not empty and whose length is under the ceiling, or     *)
(* when no ceiling is configured.                                          *)
C9_Validator ==
  Returned("isDocumentValidForChunking") =>
    LET text == call.document.text
        ceiling == CeilingOf(maxDocSize)
    IN  /\ (~text.defined \/ \A k \in 1..Len(text.chars) : text.chars[k] \in WhiteSpace)
             => ~call.valid
        /\ (text.defined /\ ceiling # NoCeiling /\ Len(text.chars) > ceiling) => ~call.valid
        /\ (Trimmed(text) # <<>> /\ (ceiling = NoCeiling \/ Len(text.chars) < ceiling))
             => call.valid

(* C9 witness: a text with content was rejected because it is longer than  *)
(* the configured ceiling.                                                 *)
C9_Witness ==
  /\ Returned("isDocumentValidForChunking")
  /\ Trimmed(call.document.text) # <<>>
  /\ CeilingOf(maxDocSize) = 3
  /\ Len(call.document.text.chars) > 3
  /\ ~call.valid

(* C10: extractJsonFromBackticks returns the empty sequence for an input   *)
(* without a json-tagged fenced block and for one whose first block does   *)
(* not parse or parses to something that is not an array; for a block      *)
(* holding an array of strings it returns those strings, in order.         *)
C10_Extractor ==
  Returned("extractJsonFromBackticks") =>
    /\ call.case.kind \in {"noblock", "nonarray", "unparsable"} => call.chunks = <<>>
    /\ call.case.kind = "strings" =>
         call.chunks = [k \in 1..Len(call.case.strs) |-> JStr(call.case.strs[k])]

(* C10 witness: a block with two strings, text before and after it, was    *)
(* returned as those two strings.                                          *)
C10_Witness ==
  /\ Returned("extractJsonFromBackticks")
  /\ call.case.kind = "strings"
  /\ StartsAt(call.case.input, 1, <<"h", "i", LF>>)
  /\ call.chunks = <<JStr(<<"a">>), JStr(<<"b">>)>>


(* ---------------------------------------------------------------------- *)
(* Properties of the stored propositions, checked under Spec.              *)
(* ---------------------------------------------------------------------- *)
Propositions == BagToSet(store)

(* C11 as stated: every proposition of a document with a parent P and a    *)
(* collection C carries the title of the document the source returns for   *)
(* P and the name of the collection the source returns for C.              *)
C11_NamesResolved ==
  \A row \in Propositions :
    /\ row.metadata.parentDocumentId # "" =>
         row.metadata.parentDocument = documentsInfo(row.metadata.parentDocumentId).data.title
    /\ row.metadata.collectionId # "" =>
         row.metadata.collection = collectionsInfo(row.metadata.collectionId).data.name

(* C12: a proposition of a document without parentDocumentId carries the   *)
(* empty string as parent title, one of a document without collectionId    *)
(* the empty string as collection name; neither is undefined.              *)
C12_EmptyNames ==
  \A row \in Propositions :
    /\ row.metadata.parentDocumentId = "" => row.metadata.parentDocument = ""
    /\ row.metadata.collectionId = "" => row.metadata.collection = ""

(* C12 witness: propositions are stored for a document with neither parent *)
(* nor collection, next to those of a document that has both.              *)
C12_Witness ==
  /\ \E row \in Propositions :
       /\ row.metadata.parentDocumentId = "" /\ row.metadata.collectionId = ""
       /\ row.metadata.parentDocument = "" /\ row.metadata.collection = ""
  /\ \E row \in Propositions :
       row.metadata.parentDocumentId # "" /\ row.metadata.collectionId # ""


(* ---------------------------------------------------------------------- *)
(* The RAG workflow (getRAG: retrieve, then generate), the tool-call       *)
(* handler of the MCP server and the chat's handleInput, under SpecRAG.    *)
(* Texts are sequences of characters or of whole fragments; an optional    *)
(* string is Str(cs) or Undefined.                                         *)
(* ---------------------------------------------------------------------- *)
Delimiter == <<"<", "/", "t", "h", "i", "n", "k", ">">>

(* a thrown value: an Error with its message, or something else *)
NewError(message) == [instance |-> TRUE, message |-> message]

NonError == [instance |-> FALSE, message |-> <<>>]

NoError == [instance |-> FALSE, message |-> <<"(none)">>]

Thrown == { NewError(<<"ECONNREFUSED">>), NonError }

(* the rows of outline_docs the questions are asked against *)
KnowledgeBase ==
  SetToBag({ Document(JStr(<<"a">>), TextDocument(Str(<<"a", SP, "b">>))),
             Document(JStr(<<"b">>), TextDocument(Str(<<"a", SP, "b">>))) })

(* vectorstore.similaritySearch(question): some rows of the table, in the  *)
(* order of their similarity                                               *)
similaritySearch(table, question) ==
  LET rows == BagToSet(table)
  IN  {<<>>} \cup { <<x>> : x \in rows }
             \cup { <<p[1], p[2]>> : p \in {q \in rows \X rows : q[1] # q[2]} }

(* response.content of ragModel.invoke *)
ModelOutputs ==
  { <<>>,
    <<"J", "W", "T">>,
    <<"<", "/", "t">>,
    <<"r">> \o Delimiter \o <<"J", "W", "T">>,
    <<"r">> \o Delimiter \o <<"a">> \o Delimiter \o <<"b">>,
    Delimiter \o <<"J">>,
    <<"J">> \o Delimiter }

NoDocs == [defined |-> FALSE, docs |-> <<>>]

Docs(d) == [defined |-> TRUE, docs |-> d]

(* variant: the edges lead to generate first *)
nextNodeGenerateFirst(node) ==
  CASE node = "__start__" -> "generate"
    [] node = "generate" -> "retrieve"
    [] node = "retrieve" -> "__end__"

(* addEdge("__start__", "retrieve"), ("retrieve", "generate"),             *)
(* ("generate", "__end__")                                                 *)
nextNode(node) ==
  CASE node = "__start__" -> "retrieve"
    [] node = "retrieve" -> "generate"
    [] node = "generate" -> "__end__"

(* ragAgent.invoke / ragAgent.stream with { question }: the state's        *)
(* channels question, context and answer; how often each node was entered  *)
(* (ran) and has returned (completed); what the search returned            *)
(* (searched), the context generate was entered with (received), the       *)
(* invocations of ragModel (modelCalls), the updates streamed so far, the  *)
(* error the invocation rejects with, where it was thrown (failedAt) and   *)
(* the error of the similarity search when it has failed (searchError)     *)
Invocation(mode, question) ==
  [pc |-> "start", mode |-> mode, question |-> question,
   context |-> NoDocs, answer |-> Undefined,
   ran |-> [retrieve |-> 0, generate |-> 0],
   completed |-> [retrieve |-> 0, generate |-> 0],
   searched |-> NoDocs, received |-> NoDocs, modelCalls |-> 0,
   updates |-> <<>>, error |-> NoError, failedAt |-> "none", searchError |-> NoError]

(* the graph moves on to a node: the node function is called with the      *)
(* state as it is                                                          *)
enterNode(inv, node) ==
  IF node = "__end__" THEN [inv EXCEPT !.pc = "done"]
  ELSE IF node = "retrieve"
    THEN [inv EXCEPT !.pc = "retrieve.initialize", !.ran.retrieve = @ + 1]
  ELSE [inv EXCEPT !.pc = "generate.pull", !.ran.generate = @ + 1, !.received = inv.context]

(* a node function throws: the invocation rejects with that error *)
nodeFails(inv, error) == [inv EXCEPT !.pc = "failed", !.error = error, !.failedAt = inv.pc]

(* variant: a failed search falls back to an empty context *)
retrieveFallsBack(inv, error) ==
  enterNode([inv EXCEPT !.context = Docs(<<>>), !.completed.retrieve = @ + 1], nextNode("retrieve"))

(* retrieve throws: nothing in retrieve or in the graph catches *)
retrieveFails(inv, error) == nodeFails(inv, error)

(* retrieve returns { context: vectorstoreResult } *)
retrieveReturns(inv, vectorstoreResult) ==
  enterNode([inv EXCEPT !.context = Docs(vectorstoreResult),
                        !.searched = Docs(vectorstoreResult),
                        !.completed.retrieve = @ + 1,
                        !.updates = Append(@, [retrieve |-> [context |-> vectorstoreResult]])],
            nextNode("retrieve"))

(* generate returns { answer: response.content } *)
generateReturns(inv, content) ==
  enterNode([inv EXCEPT !.answer = Str(content),
                        !.completed.generate = @ + 1,
                        !.updates = Append(@, [generate |-> [answer |-> Str(content)]])],
            nextNode("generate"))

(* a value in a condition or on the left of || *)
Truthy(string) == string.defined /\ string.chars # <<>>

(* result.answer || 'No answer generated' *)
queryText(answer) == IF Truthy(answer) THEN answer.chars ELSE <<"No answer generated">>

(* variant: the collected answer is returned as it is *)
streamTextAsIs(answer) == answer.chars

(* answer || 'No answer generated' *)
streamText(answer) == IF Truthy(answer) THEN answer.chars ELSE <<"No answer generated">>

(* for await (const chunk of stream)                                       *)
(*   if (chunk.generate && chunk.generate.answer) answer = ...             *)
RECURSIVE collectAnswer(_, _)
collectAnswer(answer, chunks) ==
  IF chunks = <<>> THEN answer
  ELSE LET chunk == Head(chunks)
           next == IF "generate" \in DOMAIN chunk /\ Truthy(chunk.generate.answer)
                     THEN chunk.generate.answer ELSE answer
       IN  collectAnswer(next, Tail(chunks))

(* error instanceof Error ? error.message : 'Unknown error occurred' *)
errorMessage(error) == IF error.instance THEN error.message ELSE <<"Unknown error occurred">>

(* variant: the error is thrown on to the protocol layer *)
errorRethrown(error) == [fault |-> error]

(* the catch block's result *)
errorPayload(error) ==
  [content |-> << [type |-> "text", text |-> <<"Error: ">> \o errorMessage(error)] >>,
   isError |-> TRUE]

textPayload(text) == [content |-> << [type |-> "text", text |-> text] >>]

NoPayload == [content |-> <<>>]

ToolNames == {"rag_query", "rag_stream_query", "rag_delete", ""}

(* request.params.arguments: absent, or an object whose question is        *)
(* absent, empty or a question                                             *)
ToolArguments ==
  { [present |-> FALSE, question |-> Undefined],
    [present |-> TRUE, question |-> Undefined],
    [present |-> TRUE, question |-> Str(<<>>)],
    [present |-> TRUE, question |-> Str(<<"h", "o", "w">>)],
    [present |-> TRUE, question |-> Str(<<"w", "h", "y">>)] }

(* variant: the question is not looked at *)
questionUnchecked(args) == FALSE

(* if (!question) throw new Error('Question is required') *)
questionMissing(args) == ~Truthy(args.question)

(* the switch on the tool name, up to the call of the workflow: the error  *)
(* thrown, or the mode in which the workflow is called                     *)
dispatch(name, args) ==
  IF name \in {"rag_query", "rag_stream_query"}
    THEN IF ~args.present
           THEN [throws |-> TRUE, error |-> NewError(<<"Cannot destructure property 'question'">>),
                 mode |-> "none"]
         ELSE IF questionMissing(args)
           THEN [throws |-> TRUE, error |-> NewError(<<"Question is required">>), mode |-> "none"]
         ELSE [throws |-> FALSE, error |-> NoError,
               mode |-> IF name = "rag_query" THEN "invoke" ELSE "stream"]
    ELSE [throws |-> TRUE, error |-> NewError(<<"Unknown tool: ", name>>), mode |-> "none"]

(* the handler returns from its catch block *)
caught(c, error) ==
  [c EXCEPT !.pc = "returned", !.threw = TRUE, !.result = errorPayload(error)]

(* String.prototype.split with a non-empty separator *)
FirstAt(s, sep) ==
  LET at == {i \in 1..Len(s) : StartsAt(s, i, sep)}
  IN  IF at = {} THEN 0 ELSE SetMin(at)

RECURSIVE split(_, _)
split(s, sep) ==
  LET i == FirstAt(s, sep)
  IN  IF i = 0 THEN <<s>>
      ELSE <<SubSeq(s, 1, i - 1)>> \o split(SubSeq(s, i + Len(sep), Len(s)), sep)

(* result['answer'].split('</think>')[1] *)
chatAnswer(answer) ==
  LET pieces == split(answer, Delimiter)
  IN  IF Len(pieces) >= 2 THEN Str(pieces[2]) ELSE Undefined

(* the chat's inputs, trimmed: a command, a question, nothing *)
ChatInputs == { <<"/", "h", "e", "l", "p">>, <<"h", "o", "w">>, <<>> }

InitRAG ==
  /\ corpus = <<>>
  /\ maxDocSize = Undefined
  /\ store = KnowledgeBase
  /\ runs = [r \in Runs |-> IdleRun]
  /\ call = NoCall
  /\ ragAgent = "unset"
  /\ rag = NoInvocation

Idle == call.pc \in {"none", "returned"}

(* a CallToolRequest arrives: the handler awaits this.initializeRAG() *)
ToolCall ==
  /\ Idle
  /\ \E name \in ToolNames, args \in ToolArguments :
       call' = [op |-> "tool", pc |-> "initializeRAG", name |-> name, args |-> args,
                threw |-> FALSE, invoked |-> FALSE, result |-> NoPayload]
  /\ rag' = NoInvocation
  /\ UNCHANGED <<corpus, maxDocSize, store, runs, ragAgent>>

(* initializeRAG resolves (getRAG has resolved, or ragAgent was set); the  *)
(* switch runs up to ragAgent.invoke or ragAgent.stream                    *)
RAGInitialized ==
  /\ call.op = "tool" /\ call.pc = "initializeRAG"
  /\ ragAgent' = "ready"
  /\ LET d == dispatch(call.name, call.args)
     IN  IF d.throws
           THEN /\ call' = caught(call, d.error)
                /\ rag' = rag
           ELSE /\ call' = [call EXCEPT !.pc = "workflow", !.invoked = TRUE]
                /\ rag' = enterNode(Invocation(d.mode, call.args.question), nextNode("__start__"))
  /\ UNCHANGED <<corpus, maxDocSize, store, runs>>

(* getRAG rejects *)
RAGInitializeFails ==
  /\ call.op = "tool" /\ call.pc = "initializeRAG"
  /\ ragAgent = "unset"
  /\ \E error \in Thrown : call' = caught(call, error)
  /\ UNCHANGED <<corpus, maxDocSize, store, runs, ragAgent, rag>>

(* retrieve: PGVectorStore.initialize resolves *)
RetrieveInitialized ==
  /\ rag.pc = "retrieve.initialize"
  /\ rag' = [rag EXCEPT !.pc = "retrieve.search"]
  /\ UNCHANGED <<corpus, maxDocSize, store, runs, call, ragAgent>>

RetrieveInitializeFails ==
  /\ rag.pc = "retrieve.initialize"
  /\ \E error \in Thrown : rag' = retrieveFails(rag, error)
  /\ UNCHANGED <<corpus, maxDocSize, store, runs, call, ragAgent>>

(* retrieve: similaritySearch resolves *)
SimilaritySearch ==
  /\ rag.pc = "retrieve.search"
  /\ \E vectorstoreResult \in similaritySearch(store, rag.question) :
       rag' = retrieveReturns(rag, vectorstoreResult)
  /\ UNCHANGED <<corpus, maxDocSize, store, runs, call, ragAgent>>

SimilaritySearchFails ==
  /\ rag.pc = "retrieve.search"
  /\ \E error \in Thrown : rag' = retrieveFails([rag EXCEPT !.searchError = error], error)
  /\ UNCHANGED <<corpus, maxDocSize, store, runs, call, ragAgent>>

(* generate: pull('rlm/rag-prompt') resolves; state.context.map(...) and   *)
(* promptTemplate.invoke, then ragModel.invoke is called                   *)
PromptPulled ==
  /\ rag.pc = "generate.pull"
  /\ rag' = IF rag.context.defined
              THEN [rag EXCEPT !.pc = "generate.model", !.modelCalls = @ + 1]
              ELSE nodeFails(rag, NewError(<<"Cannot read properties of undefined (reading 'map')">>))
  /\ UNCHANGED <<corpus, maxDocSize, store, runs, call, ragAgent>>

PromptPullFails ==
  /\ rag.pc = "generate.pull"
  /\ \E error \in Thrown : rag' = nodeFails(rag, error)
  /\ UNCHANGED <<corpus, maxDocSize, store, runs, call, ragAgent>>

(* generate: ragModel.invoke resolves *)
ModelResponds ==
  /\ rag.pc = "generate.model"
  /\ \E content \in ModelOutputs : rag' = generateReturns(rag, content)
  /\ UNCHANGED <<corpus, maxDocSize, store, runs, call, ragAgent>>

ModelFails ==
  /\ rag.pc = "generate.model"
  /\ \E error \in Thrown : rag' = nodeFails(rag, error)
  /\ UNCHANGED <<corpus, maxDocSize, store, runs, call, ragAgent>>

(* the workflow has settled: rag_query returns result.answer, or           *)
(* rag_stream_query the answer collected from the stream, or the catch     *)
(* block the error                                                         *)
ToolReturns ==
  /\ call.op = "tool" /\ call.pc = "workflow"
  /\ rag.pc \in {"done", "failed"}
  /\ call' = IF rag.pc = "failed" THEN caught(call, rag.error)
             ELSE [call EXCEPT !.pc = "returned",
                     !.result = IF call.name = "rag_query"
                                  THEN textPayload(queryText(rag.answer))
                                  ELSE textPayload(streamText(collectAnswer(Str(<<>>), rag.updates)))]
  /\ UNCHANGED <<corpus, maxDocSize, store, runs, ragAgent, rag>>

(* handleInput(input): a command is handled at once, anything else is      *)
(* passed to this.rag.invoke({ question: input })                          *)
ChatInput ==
  /\ Idle
  /\ \E input \in ChatInputs :
       LET c == [op |-> "chat", pc |-> "workflow", input |-> input,
                 printed |-> FALSE, assistant |-> Undefined, failed |-> FALSE]
       IN  IF StartsAt(input, 1, <<"/">>)
             THEN /\ call' = [c EXCEPT !.pc = "returned"]
                  /\ rag' = NoInvocation
             ELSE /\ call' = c
                  /\ rag' = enterNode(Invocation("invoke", Str(input)), nextNode("__start__"))
  /\ UNCHANGED <<corpus, maxDocSize, store, runs, ragAgent>>

(* the invocation has settled: the Assistant message is printed, or the    *)
(* catch block logs the error                                              *)
ChatPrints ==
  /\ call.op = "chat" /\ call.pc = "workflow"
  /\ rag.pc \in {"done", "failed"}
  /\ call' = IF rag.pc = "failed" THEN [call EXCEPT !.pc = "returned", !.failed = TRUE]
             ELSE [call EXCEPT !.pc = "returned", !.printed = TRUE,
                                !.assistant = chatAnswer(rag.answer.chars)]
  /\ UNCHANGED <<corpus, maxDocSize, store, runs, ragAgent, rag>>

NextRAG ==
  \/ ToolCall
  \/ RAGInitialized
  \/ RAGInitializeFails
  \/ RetrieveInitialized
  \/ RetrieveInitializeFails
  \/ SimilaritySearch
  \/ SimilaritySearchFails
  \/ PromptPulled
  \/ PromptPullFails
  \/ ModelResponds
  \/ ModelFails
  \/ ToolReturns
  \/ ChatInput
  \/ ChatPrints

SpecRAG == InitRAG /\ [][NextRAG]_vars


(* ---------------------------------------------------------------------- *)
(* Properties of the workflow and of its two interfaces, under SpecRAG.    *)
(* ---------------------------------------------------------------------- *)
ToolReturned == call.op = "tool" /\ call.pc = "returned"

Flagged(result) == "isError" \in DOMAIN result /\ result.isError

BeginsWithError(text) == StartsAt(text, 1, <<"Error: ">>)

(* the text after the first delimiter, or the whole text without one *)
AfterFirstDelimiter(output) ==
  LET i == FirstAt(output, Delimiter)
  IN  IF i = 0 THEN output ELSE SubSeq(output, i + Len(Delimiter), Len(output))

(* C13: in an invocation of the workflow each of retrieve and generate is  *)
(* entered at most once, generate is entered only after retrieve has       *)
(* returned, and the context generate is entered with is the sequence the  *)
(* similarity search returned, same elements, same order.                  *)
C13_RetrieveThenGenerate ==
  rag.pc # "none" =>
    /\ rag.ran.retrieve <= 1
    /\ rag.ran.generate <= 1
    /\ rag.ran.generate >= 1 =>
         /\ rag.completed.retrieve = 1
         /\ rag.searched.defined
         /\ rag.received = rag.searched

(* C13 witness: an invocation has ended whose search returned two rows.    *)
C13_Witness ==
  /\ rag.pc = "done"
  /\ Len(rag.received.docs) = 2
  /\ rag.completed = [retrieve |-> 1, generate |-> 1]

(* C14: when the similarity search fails the invocation fails with the     *)
(* search's error: generate is not entered, ragModel is not invoked, the   *)
(* state has no answer, and the caller gets the error, not an answer.      *)
C14_SearchFailureFailsInvocation ==
  (rag.pc # "none" /\ rag.searchError # NoError) =>
    /\ rag.pc = "failed"
    /\ rag.error = rag.searchError
    /\ rag.ran.generate = 0
    /\ rag.modelCalls = 0
    /\ ~rag.answer.defined
    /\ ToolReturned => call.result = errorPayload(rag.searchError)
    /\ (call.op = "chat" /\ call.pc = "returned") => (call.failed /\ ~call.printed)

(* C14 witness: a tool call has returned the error of a failed search.     *)
C14_Witness ==
  /\ ToolReturned
  /\ rag.pc # "none"
  /\ rag.searchError = NewError(<<"ECONNREFUSED">>)
  /\ call.result.content[1].text = <<"Error: ", "ECONNREFUSED">>

(* C15 as stated: the answer shown to the user is the model output after   *)
(* its first delimiter, or the whole output when it holds no delimiter,    *)
(* in the chat and in rag_query.                                           *)
C15_AnswerAfterFirstDelimiter ==
  (call.pc = "returned" /\ rag.pc = "done" /\ rag.answer.chars # <<>>) =>
    LET expected == AfterFirstDelimiter(rag.answer.chars)
    IN  /\ call.op = "chat" => (call.printed /\ call.assistant = Str(expected))
        /\ (call.op = "tool" /\ call.name = "rag_query") =>
             call.result.content[1].text = expected

(* C16: a call of rag_query or rag_stream_query whose question is missing  *)
(* or empty returns a text beginning with Error:, flagged isError, and     *)
(* the workflow is neither invoked nor streamed.                           *)
C16_QuestionRequired ==
  ( /\ ToolReturned
    /\ call.name \in {"rag_query", "rag_stream_query"}
    /\ ~Truthy(call.args.question) ) =>
      /\ "content" \in DOMAIN call.result
      /\ Len(call.result.content) = 1
      /\ BeginsWithError(call.result.content[1].text)
      /\ Flagged(call.result)
      /\ ~call.invoked
      /\ rag = NoInvocation

(* C16 witness: rag_stream_query was called with an empty question, the    *)
(* agent being initialised, and answered that a question is required.      *)
C16_Witness ==
  /\ ToolReturned
  /\ call.name = "rag_stream_query"
  /\ call.args.question = Str(<<>>)
  /\ ragAgent = "ready"
  /\ call.result = errorPayload(NewError(<<"Question is required">>))

(* C17: the tool-call handler raises no fault: whatever the tool name, the *)
(* arguments and the failures of initialisation or of a stage, it returns  *)
(* a result with exactly one content item, of type text, flagged isError   *)
(* exactly when an exception occurred during the call.                     *)
C17_AlwaysTextPayload ==
  ToolReturned =>
    /\ "content" \in DOMAIN call.result
    /\ Len(call.result.content) = 1
    /\ call.result.content[1].type = "text"
    /\ Flagged(call.result) <=>
         ( \/ call.threw
           \/ rag.pc = "failed"
           \/ call.name \notin {"rag_query", "rag_stream_query"}
           \/ ~Truthy(call.args.question) )
    /\ Flagged(call.result) => BeginsWithError(call.result.content[1].text)

(* C17 witness: an unknown tool was called and an error text returned.     *)
C17_Witness ==
  /\ ToolReturned
  /\ call.name = "rag_delete"
  /\ call.result.content = << [type |-> "text", text |-> <<"Error: ", "Unknown tool: ", "rag_delete">>] >>
  /\ Flagged(call.result)

(* the updates of generate that carry a non-empty answer *)
GenerateUpdates(updates) ==
  {k \in 1..Len(updates) : "generate" \in DOMAIN updates[k] /\ Truthy(updates[k].generate.answer)}

(* C18: rag_stream_query returns what rag_query returns for the same       *)
(* behaviour of the workflow: the answer of the last generate update, or   *)
(* No answer generated when no generate update carries an answer, or the   *)
(* error of the stage that failed.                                         *)
C18_StreamReturnsFinalAnswer ==
  (ToolReturned /\ call.name = "rag_stream_query" /\ call.invoked) =>
    /\ call.result = IF rag.pc = "failed" THEN errorPayload(rag.error)
                     ELSE textPayload(queryText(rag.answer))
    /\ rag.pc = "done" =>
         call.result.content[1].text =
           IF GenerateUpdates(rag.updates) = {} THEN <<"No answer generated">>
           ELSE rag.updates[SetMax(GenerateUpdates(rag.updates))].generate.answer.chars

(* C18 witness: a streamed call returned No answer generated for an empty  *)
(* model output after both stages had sent their update.                   *)
C18_Witness ==
  /\ ToolReturned
  /\ call.name = "rag_stream_query"
  /\ rag.pc = "done"
  /\ Len(rag.updates) = 2
  /\ rag.answer = Str(<<>>)
  /\ call.result = textPayload(<<"No answer generated">>)


(* ---------------------------------------------------------------------- *)
(* Two ingestion processes started without waiting for one another, over   *)
(* a source of one document, under SpecRace.                               *)
(* ---------------------------------------------------------------------- *)
InitRace ==
  /\ \E n \in 1..MaxDocs : corpus = <<SourceDoc(n)>>
  /\ maxDocSize = Undefined
  /\ store = EmptyBag
  /\ runs = [r \in Runs |-> IdleRun]
  /\ call = NoCall
  /\ ragAgent = "unset"
  /\ rag = NoInvocation

(* a process starts ingest() whatever the other process is doing *)
StartConcurrently(r) ==
  /\ runs[r].pc = "idle"
  /\ runs' = [runs EXCEPT ![r] = [IdleRun EXCEPT !.pc = "fetching", !.fetched = <<0>>,
                                                 !.storeAtStart = store]]
  /\ UNCHANGED <<corpus, maxDocSize, store, call, ragAgent, rag>>

NextRace ==
  \/ \E r \in Runs : StartConcurrently(r)
  \/ Next

SpecRace == InitRace /\ [][NextRace]_vars

(* the tasks that passed the existence check on an empty result, wrote     *)
(* their chunks and returned                                               *)
Writers ==
  { w \in Runs \X Slots :
      /\ w[2] \in TaskIndex(w[1])
      /\ runs[w[1]].tasks[w[2]].pc = "done"
      /\ runs[w[1]].tasks[w[2]].calls.write = 1 }

Wrote(w, row) ==
  \E j \in 1..Len(runs[w[1]].tasks[w[2]].generatedDocs) :
    runs[w[1]].tasks[w[2]].generatedDocs[j] = row

(* C19: the existence check and the insert are not one step and the insert *)
(* adds rows whatever the table holds: every task that has written has its *)
(* chunks in the store, one copy per writing task, so two runs that both   *)
(* pass the check for a document leave the chunks of two chunker           *)
(* invocations under its id.                                               *)
C19_EveryWriteAdds ==
  \A w \in Writers :
    \A j \in 1..Len(runs[w[1]].tasks[w[2]].generatedDocs) :
      LET row == runs[w[1]].tasks[w[2]].generatedDocs[j]
      IN  CopiesIn(row, store) >= Cardinality({v \in Writers : Wrote(v, row)})

(* C19 witness: two runs in progress together have both found no row for   *)
(* the document, both written, and the store holds its chunks twice.       *)
C19_Witness ==
  \E k1 \in TaskIndex(1), k2 \in TaskIndex(2) :
    LET t1 == runs[1].tasks[k1]
        t2 == runs[2].tasks[k2]
    IN  /\ t1.document.id = t2.document.id
        /\ ~t1.found /\ ~t2.found
        /\ t1.pc = "done" /\ t2.pc = "done"
        /\ t1.calls.model = 1 /\ t2.calls.model = 1
        /\ t1.calls.write = 1 /\ t2.calls.write = 1
        /\ BagCardinality(RowsOf(store, t1.document.id))
             = Len(t1.generatedDocs) + Len(t2.generatedDocs)


(* ---------------------------------------------------------------------- *)
(* The second run of ingest over the unchanged source, under Spec.         *)
(* ---------------------------------------------------------------------- *)
SecondRuns == {r \in Runs : r > 1 /\ runs[r - 1].endedAs = "finished"}

(* C20 as stated: in a second run after a completed first run the          *)
(* existence check short-circuits every document: none is enriched,        *)
(* chunked or written again, those without stored propositions included.   *)
C20_SecondRunSkipsAll ==
  \A r \in SecondRuns : \A k \in TaskIndex(r) :
    runs[r].tasks[k].pc \notin {"check", "failed", "killed"} =>
      /\ runs[r].tasks[k].loaded
      /\ runs[r].tasks[k].calls = NoCalls

(* C20 amended: in a second run the existence check short-circuits only    *)
(* documents for which the query returned rows: such a document is not     *)
(* enriched, chunked or written. A document without rows, among them every *)
(* document for which the first run stored no proposition, is never        *)
(* short-circuited: it is enriched, validated and chunked again as a new   *)
(* document, and written when the chunker returns propositions.            *)
C20_SkipsOnlyStoredDocuments ==
  \A r \in SecondRuns : \A k \in TaskIndex(r) :
    LET t == runs[r].tasks[k]
    IN  /\ t.loaded => (t.found /\ t.calls = NoCalls /\ t.generatedDocs = <<>>)
        /\ (t.pc = "done" /\ ~t.found) => (~t.loaded /\ CompletedAsAlone(t, store))

(* C20 witness: a document left without rows by the completed first run    *)
(* has been chunked and written by the second run.                         *)
C20_Witness ==
  \E r \in SecondRuns : \E k \in TaskIndex(r) :
    LET t == runs[r].tasks[k]
    IN  /\ BagCardinality(RowsOf(runs[r].storeAtStart, t.document.id)) = 0
        /\ t.pc = "done"
        /\ ~t.found
        /\ t.calls.model = 1
        /\ t.calls.write = 1
        /\ BagCardinality(RowsOf(store, t.document.id)) = Len(t.generatedDocs)



(* ---------------------------------------------------------------------- *)
(* The batch write of a document, under Spec.                              *)
(* ---------------------------------------------------------------------- *)

(* what the chunker can have returned for the document of a task *)
ChunkerResults(t) ==
  { generateDocumentChunks(ExtendedDocument(t), maxDocSize, llm).value : llm \in ChunkerResponses }

(* the calls of addDocuments a run has made for a document id *)
WritesFor(r, id) ==
  Cardinality({k \in TaskIndex(r) : runs[r].tasks[k].document.id = id
                                      /\ runs[r].tasks[k].calls.write > 0})

C21_Task(t) ==
  /\ t.calls.write <= 1
  /\ t.calls.write = 1 <=> Len(t.generatedDocs) > 0
  /\ t.calls.write = 1 =>
       /\ t.calls.model = 1
       /\ isDocumentValidForChunking(ExtendedDocument(t), maxDocSize)
       /\ t.generatedDocs \in ChunkerResults(t)
  /\ t.pc \in {"check", "parent", "collection", "chunk"} => t.calls.write = 0

C21_Step(r) ==
  LET old == runs[r].tasks
      new == runs'[r].tasks
  IN  /\ \A k \in 1..Len(new) : C21_Task(new[k])
      /\ \A id \in {new[k].document.id : k \in 1..Len(new)} :
           Cardinality({k \in 1..Len(new) : new[k].document.id = id /\ new[k].calls.write > 0}) <= 1
      /\ \A k \in 1..Min(Len(old), Len(new)) :
           (old[k].pc = "write" /\ new[k].pc = "done") =>
             store' = store (+) SeqToBag(old[k].generatedDocs)
      /\ store' # store =>
           \E q \in Runs : \E k \in 1..Min(Len(runs[q].tasks), Len(runs'[q].tasks)) :
             /\ runs[q].tasks[k].pc = "write"
             /\ runs'[q].tasks[k].pc = "done"

(* C21: for each document of a run addDocuments is called at most once,    *)
(* with the whole sequence the chunker returned as one batch, and exactly  *)
(* when that sequence is not empty: never with an empty batch, never for a *)
(* document the validator rejected, never for an output without a parsable *)
(* block; the store changes only by such a batch.                          *)
C21_OneBatchPerDocument == [][\A r \in Runs : C21_Step(r)]_vars

(* C21 witness: a run has ended with one document written as one batch,    *)
(* one chunked without propositions and one rejected by the validator,     *)
(* the last two without a write.                                           *)
C21_Witness ==
  \E r \in Runs : \E k1, k2, k3 \in TaskIndex(r) :
    LET t1 == runs[r].tasks[k1]
        t2 == runs[r].tasks[k2]
        t3 == runs[r].tasks[k3]
    IN  /\ runs[r].pc = "finished"
        /\ t1.calls.write = 1 /\ Len(t1.generatedDocs) = 2
        /\ RowsOf(store, t1.document.id) = SeqToBag(t1.generatedDocs)
        /\ t2.calls.model = 1 /\ t2.calls.write = 0 /\ t2.pc = "done"
        /\ ~t3.loaded /\ t3.calls.model = 0 /\ t3.calls.write = 0 /\ t3.pc = "done"
        /\ WritesFor(r, t1.document.id) = 1


(* ---------------------------------------------------------------------- *)
(* The back-reference of the stored rows, under Spec.                      *)
(* ---------------------------------------------------------------------- *)

(* the tasks whose batch write has completed *)
Written(r) == {k \in TaskIndex(r) : runs[r].tasks[k].pc = "done" /\ runs[r].tasks[k].calls.write = 1}

(* every row of a batch, built or written, names the document of its task, *)
(* and every stored row names one document of the source                   *)
RowsCarryDocumentId ==
  /\ \A r \in Runs : \A k \in TaskIndex(r) :
       \A j \in 1..Len(runs[r].tasks[k].generatedDocs) :
         runs[r].tasks[k].generatedDocs[j].metadata.id = runs[r].tasks[k].document.id
  /\ \A row \in BagToSet(store) :
       Cardinality({n \in 1..Len(corpus) : corpus[n].id = row.metadata.id}) = 1

(* C22 as stated: every row written carries the id of the document it was  *)
(* chunked from, and once the batch write of a document has completed the  *)
(* existence check for its id returns true: a check made while the store   *)
(* holds rows with the id reports the document as loaded.                  *)
C22_StoredChunksTraceable ==
  /\ RowsCarryDocumentId
  /\ \A r \in Runs : \A k \in Written(r) :
       BagCardinality(RowsOf(store, runs[r].tasks[k].document.id)) > 0
  /\ \A r \in Runs : \A k \in TaskIndex(r) :
       runs[r].tasks[k].found => runs[r].tasks[k].loaded


(* ---------------------------------------------------------------------- *)
(* Outputs with several fenced blocks, under SpecChunker.                  *)
(* ---------------------------------------------------------------------- *)

(* the json-tagged blocks that follow the first block in the inputs *)
LaterBlocks ==
  { <<LF>> \o Block(<<"{", "}">>),
    <<LF>> \o Block(<<"[">> \o Quoted(<<"z">>) \o <<"]">>) }

EndsWith(s, suffix) ==
  Len(s) >= Len(suffix) /\ SubSeq(s, Len(s) - Len(suffix) + 1, Len(s)) = suffix

WithoutSuffix(s, suffix) == SubSeq(s, 1, Len(s) - Len(suffix))

(* C23: of an output with several fenced blocks only the first json-tagged *)
(* block counts: the result is the one for the output cut after that       *)
(* block; it is empty when the first block does not parse or is not an     *)
(* array, whatever array a later block holds, and it is the array of the   *)
(* first block when there is one, nothing of a later block added.          *)
C23_FirstBlockOnly ==
  (Returned("extractJsonFromBackticks") /\ call.case.kind # "noblock") =>
    \A later \in LaterBlocks :
      EndsWith(call.case.input, later) =>
        /\ call.chunks = extractJsonFromBackticks(WithoutSuffix(call.case.input, later))
        /\ call.case.kind \in {"nonarray", "unparsable"} => call.chunks = <<>>
        /\ call.case.kind = "strings" =>
             call.chunks = [k \in 1..Len(call.case.strs) |-> JStr(call.case.strs[k])]
        /\ call.case.kind = "mixed" => Len(call.chunks) > 0
        /\ \A k \in 1..Len(call.chunks) : call.chunks[k] # JStr(<<"z">>)

(* C23 witness: a first block that does not parse, followed by a block     *)
(* holding a well-formed array, gave the empty sequence.                   *)
C23_Witness ==
  /\ Returned("extractJsonFromBackticks")
  /\ call.case.kind = "unparsable"
  /\ EndsWith(call.case.input, <<LF>> \o Block(<<"[">> \o Quoted(<<"z">>) \o <<"]">>))
  /\ extractJsonFromBackticks(Block(<<"[">> \o Quoted(<<"z">>) \o <<"]">>)) = <<JStr(<<"z">>)>>
  /\ call.chunks = <<>>


(* C24 as stated: extractJsonFromBackticks returns a sequence of strings:  *)
(* for every input every element of the returned sequence is a string.     *)
C24_ElementsAreStrings ==
  Returned("extractJsonFromBackticks") =>
    \A k \in 1..Len(call.chunks) : call.chunks[k].t = "string"


(* ---------------------------------------------------------------------- *)
(* The validator's short circuit during ingestion, under Spec.             *)
(* ---------------------------------------------------------------------- *)

(* the tasks that have entered generateDocumentChunks *)
Chunking(r) ==
  {k \in TaskIndex(r) : \/ runs[r].tasks[k].pc \in {"chunk", "write"}
                        \/ runs[r].tasks[k].pc = "done" /\ ~runs[r].tasks[k].loaded}

(* C25: for a document the validator rejects generateDocumentChunks        *)
(* returns the empty sequence at once: the model is never invoked for it   *)
(* and nothing is written; for a document it accepts the model is invoked  *)
(* once.                                                                   *)
C25_RejectedNeverInvokes ==
  \A r \in Runs : \A k \in TaskIndex(r) :
    LET t == runs[r].tasks[k]
    IN  /\ ~isDocumentValidForChunking(ExtendedDocument(t), maxDocSize) =>
             /\ t.calls.model = 0
             /\ t.pc # "chunk"
             /\ t.generatedDocs = <<>>
             /\ t.calls.write = 0
        /\ (k \in Chunking(r) /\ isDocumentValidForChunking(ExtendedDocument(t), maxDocSize)) =>
             t.calls.model = 1

(* C25 witness: a document with a text over the configured size was        *)
(* enriched, rejected and completed without a model invocation, while a    *)
(* document of the same run was chunked.                                   *)
C25_Witness ==
  \E r \in Runs : \E k, j \in TaskIndex(r) :
    LET t == runs[r].tasks[k]
    IN  /\ t.pc = "done"
        /\ ~t.loaded
        /\ t.document.text.defined
        /\ trim(t.document.text.chars) # <<>>
        /\ ~isDocumentValidForChunking(ExtendedDocument(t), maxDocSize)
        /\ t.calls.parent = 1
        /\ t.calls.model = 0
        /\ runs[r].tasks[j].calls.model = 1


(* ---------------------------------------------------------------------- *)
(* The concurrent tasks of a page, under Spec.                             *)
(* ---------------------------------------------------------------------- *)

(* the batch a task has written *)
BatchOf(t) ==
  IF t.pc = "done" /\ t.calls.write = 1 THEN SeqToBag(t.generatedDocs) ELSE EmptyBag

(* the rows under the id of each task's document are those the store held  *)
(* when the run started plus the batch of that task alone, and the outcome *)
(* of a task is the one its own document gives                             *)
StoreIsSumOfBatches ==
  \A r \in Runs :
    runs[r].pc \notin {"idle", "archived"} =>
      \A k \in TaskIndex(r) :
        LET t == runs[r].tasks[k]
        IN  /\ RowsOf(store, t.document.id)
                 = RowsOf(runs[r].storeAtStart, t.document.id) (+) BatchOf(t)
            /\ t.pc \notin {"check", "failed", "killed"} =>
                 t.found = (BagCardinality(RowsOf(runs[r].storeAtStart, t.document.id)) > 0)
            /\ t.pc = "done" => CompletedAsAlone(t, store)
            /\ \A j \in TaskIndex(r) : j # k => runs[r].tasks[j].document.id # t.document.id

(* the tasks of run r that take a step *)
Stepping(r) ==
  IF Len(runs'[r].tasks) # Len(runs[r].tasks) \/ runs'[r].pc \in {"exited", "archived"} THEN {}
  ELSE {k \in TaskIndex(r) : runs'[r].tasks[k] # runs[r].tasks[k]}

(* a step of a task changes its own record, the rows under its own id and, *)
(* when it rejects, the outcome of Promise.all                             *)
C26_OwnStateOnly(r, k) ==
  /\ \A j \in TaskIndex(r) : j # k => runs'[r].tasks[j] = runs[r].tasks[j]
  /\ \A q \in Runs : q # r => runs'[q] = runs[q]
  /\ \A n \in 1..Len(corpus) :
       corpus[n].id # runs[r].tasks[k].document.id =>
         RowsOf(store', corpus[n].id) = RowsOf(store, corpus[n].id)
  /\ runs'[r] = [runs[r] EXCEPT !.tasks[k] = runs'[r].tasks[k],
                                !.pc = runs'[r].pc,
                                !.processed = runs'[r].processed]

RetryChunks == { <<JStr(<<"a">>), JStr(<<"b">>)>>, <<JStr(<<"a">>)>>, <<JStr(<<"a">>), JStr(<<"a">>)>> }

(* the batches generateDocumentChunks builds for the documents of the source *)
RetryBatches ==
  { mapChunks(chunks, ExtendedDocument(NewTask(SourceDoc(n), 0))) :
      chunks \in RetryChunks, n \in 1..(MaxDocs + 1) }

InitRetry ==
  /\ corpus = <<>>
  /\ maxDocSize = Undefined
  /\ store \in {EmptyBag} \cup {SeqToBag(b) : b \in RetryBatches}
  /\ runs = [r \in Runs |-> IdleRun]
  /\ \E b \in RetryBatches :
       call = [op |-> "addDocuments", pc |-> "called", generatedDocs |-> b,
               before |-> store, once |-> store]
  /\ ragAgent = "unset"
  /\ rag = NoInvocation

(* vectorStore.addDocuments(generatedDocs) *)
Write ==
  /\ call.op = "addDocuments"
  /\ call.pc = "called"
  /\ store' = addDocuments(store, call.generatedDocs)
  /\ call' = [call EXCEPT !.pc = "written", !.once = store']
  /\ UNCHANGED <<corpus, maxDocSize, runs, ragAgent, rag>>

(* the same call again *)
WriteAgain ==
  /\ call.op = "addDocuments"
  /\ call.pc = "written"
  /\ store' = addDocuments(store, call.generatedDocs)
  /\ call' = [call EXCEPT !.pc = "retried"]
  /\ UNCHANGED <<corpus, maxDocSize, runs, ragAgent, rag>>

NextRetry == Write \/ WriteAgain

SpecRetry == InitRetry /\ [][NextRetry]_vars

(* C27 as stated: the same addDocuments write performed twice leaves the   *)
(* store with the same rows as performed once.                             *)
C27_RetryIdempotent ==
  (call.op = "addDocuments" /\ call.pc = "retried") => store = call.once

(* C27 amended: the write is an insert that is not keyed by the document   *)
(* id: performed twice it leaves every row of the batch twice as often as  *)
(* performed once, on top of the rows the table held, and never the same   *)
(* rows as performed once.                                                 *)
C27_RetryDuplicates ==
  (call.op = "addDocuments" /\ call.pc = "retried") =>
    /\ store # call.once
    /\ \A row \in BagToSet(store) :
         CopiesIn(row, store)
           = CopiesIn(row, call.before) + 2 * CopiesIn(row, SeqToBag(call.generatedDocs))
    /\ BagCardinality(RowsOf(store, call.generatedDocs[1].metadata.id))
         = BagCardinality(RowsOf(call.before, call.generatedDocs[1].metadata.id))
             + 2 * Len(call.generatedDocs)

(* C27 witness: a batch of two rows written twice into an empty table      *)
(* leaves four rows under the document's id.                               *)
C27_Witness ==
  /\ call.op = "addDocuments"
  /\ call.pc = "retried"
  /\ call.before = EmptyBag
  /\ Len(call.generatedDocs) = 2
  /\ BagCardinality(RowsOf(store, call.generatedDocs[1].metadata.id)) = 4
  /\ BagCardinality(call.once) = 2


(* ---------------------------------------------------------------------- *)
(* The existence query that fails, under Spec.                             *)
(* ---------------------------------------------------------------------- *)

(* the tasks whose existence check reported false while the store held     *)
(* rows with the id: client.query threw and queryDB returned undefined     *)
Missed(r) ==
  {k \in TaskIndex(r) : runs[r].tasks[k].found /\ ~runs[r].tasks[k].loaded
                          /\ runs[r].tasks[k].pc # "check"}

Requests == {1, 2, 3}

Agents == <<"agent1", "agent2", "agent3">>

NoRequest ==
  [pc |-> "none", name |-> "", args |-> [present |-> FALSE, question |-> Undefined],
   creating |-> 0, used |-> "none", threw |-> FALSE, initFailed |-> FALSE]

InitServer ==
  /\ corpus = <<>>
  /\ maxDocSize = Undefined
  /\ store = KnowledgeBase
  /\ runs = [r \in Runs |-> IdleRun]
  /\ call = [op |-> "server", requests |-> [q \in Requests |-> NoRequest], getRAGCalls |-> 0]
  /\ ragAgent = "unset"
  /\ rag = NoInvocation

(* a CallToolRequest arrives: the handler calls initializeRAG, which       *)
(* returns when this.ragAgent is set and calls getRAG when it is not       *)
RequestArrives(q) ==
  /\ call.requests[q].pc = "none"
  /\ \E name \in {"rag_query", "rag_delete"},
        args \in {a \in ToolArguments : a.question = Str(<<"h", "o", "w">>)} :
       LET request == [NoRequest EXCEPT !.name = name, !.args = args]
       IN  call' = IF ragAgent = "unset"
                     THEN [call EXCEPT !.getRAGCalls = @ + 1,
                                       !.requests[q] = [request EXCEPT !.pc = "getRAG",
                                                                       !.creating = call.getRAGCalls + 1]]
                     ELSE [call EXCEPT !.requests[q] = [request EXCEPT !.pc = "initialized"]]
  /\ UNCHANGED <<corpus, maxDocSize, store, runs, ragAgent, rag>>

(* this.ragAgent = await getRAG(): getRAG resolves *)
GetRAGResolves(q) ==
  /\ call.requests[q].pc = "getRAG"
  /\ ragAgent' = Agents[call.requests[q].creating]
  /\ call' = [call EXCEPT !.requests[q].pc = "initialized"]
  /\ UNCHANGED <<corpus, maxDocSize, store, runs, rag>>

(* getRAG rejects: initializeRAG rejects, the handler's catch returns the  *)
(* error; this.ragAgent is not assigned                                    *)
GetRAGRejects(q) ==
  /\ call.requests[q].pc = "getRAG"
  /\ call' = [call EXCEPT !.requests[q].pc = "returned", !.requests[q].threw = TRUE,
                          !.requests[q].initFailed = TRUE]
  /\ UNCHANGED <<corpus, maxDocSize, store, runs, ragAgent, rag>>

(* the switch: an error is thrown and caught, or this.ragAgent.invoke is   *)
(* called on the agent held at that moment                                 *)
Dispatches(q) ==
  /\ call.requests[q].pc = "initialized"
  /\ LET d == dispatch(call.requests[q].name, call.requests[q].args)
     IN  call' = IF d.throws
                   THEN [call EXCEPT !.requests[q].pc = "returned", !.requests[q].threw = TRUE]
                   ELSE [call EXCEPT !.requests[q].pc = "workflow", !.requests[q].used = ragAgent]
  /\ UNCHANGED <<corpus, maxDocSize, store, runs, ragAgent, rag>>

(* the workflow settles and the handler returns its payload *)
WorkflowSettles(q) ==
  /\ call.requests[q].pc = "workflow"
  /\ \E threw \in BOOLEAN :
       call' = [call EXCEPT !.requests[q].pc = "returned", !.requests[q].threw = threw]
  /\ UNCHANGED <<corpus, maxDocSize, store, runs, ragAgent, rag>>

NextServer ==
  \/ \E q \in Requests : RequestArrives(q)
  \/ \E q \in Requests : GetRAGResolves(q)
  \/ \E q \in Requests : GetRAGRejects(q)
  \/ \E q \in Requests : Dispatches(q)
  \/ \E q \in Requests : WorkflowSettles(q)

SpecServer == InitServer /\ [][NextServer]_vars

(* the calls of getRAG that rejected, and those still awaited *)
RejectedInits == {q \in Requests : call.requests[q].initFailed}

PendingInits == {q \in Requests : call.requests[q].pc = "getRAG"}

(* C29 as stated: whatever the interleaving of the tool calls, getRAG is   *)
(* invoked at most once apart from invocations that failed, every call     *)
(* that reaches the workflow uses the same agent, and after a failed       *)
(* initialisation the agent is unset until a later call initialises it.    *)
C29_InitializedAtMostOnce ==
  /\ call.getRAGCalls <= 1 + Cardinality(RejectedInits)
  /\ \A p, q \in Requests :
       (call.requests[p].used # "none" /\ call.requests[q].used # "none")
         => call.requests[p].used = call.requests[q].used
  /\ (call.getRAGCalls = Cardinality(RejectedInits)) => ragAgent = "unset"


(* ---------------------------------------------------------------------- *)
(* Termination of a run, under SpecLive: one process running ingest(),     *)
(* over a store that is empty or holds the chunks an earlier run wrote for *)
(* the first document, with every call that is awaited eventually          *)
(* returning or failing and the event loop running every continuation      *)
(* that is ready. Starting the process is under no obligation.             *)
(* ---------------------------------------------------------------------- *)
EarlierChunks ==
  mapChunks(extractJsonFromBackticks(Block(TwoStrings)), ExtendedDocument(NewTask(SourceDoc(1), 0)))

InitLive ==
  /\ \E n \in 0..MaxDocs : corpus = [k \in 1..n |-> SourceDoc(k)]
  /\ maxDocSize \in {Undefined, Str(<<"3">>)}
  /\ store \in {EmptyBag, SeqToBag(EarlierChunks)}
  /\ runs = [r \in Runs |-> IdleRun]
  /\ call = NoCall
  /\ ragAgent = "unset"
  /\ rag = NoInvocation

(* the continuation of ingest and loadDocsToVectorDB that is ready: a      *)
(* page request or the store's initialisation settles, Promise.all         *)
(* resolves, the process exits on the unhandled rejection                  *)
RunStep(r) ==
  \/ PageResponse(r) \/ PageRequestFails(r)
  \/ LoadDocs(r) \/ InitializeFails(r)
  \/ PageDone(r)
  \/ ProcessExit(r)

(* the call a task awaits settles: it awaits one call at a time *)
TaskStep(r, k) ==
  \/ ExistenceQuery(r, k) \/ ConnectFails(r, k)
  \/ ParentResponse(r, k) \/ ParentRequestFails(r, k)
  \/ CollectionResponse(r, k) \/ CollectionRequestFails(r, k)
  \/ ChunkerResponse(r, k)
  \/ WriteDone(r, k) \/ WriteFails(r, k)

NextLive ==
  \/ StartRun(1)
  \/ RunStep(1)
  \/ \E k \in Slots : TaskStep(1, k)

CallsSettle(r) ==
  /\ WF_vars(RunStep(r))
  /\ \A k \in Slots : WF_vars(TaskStep(r, k))

SpecLive == InitLive /\ [][NextLive]_vars /\ CallsSettle(1)

Started(run) == run.pc \in {"fetching", "initializing", "loading", "failed"}

(* C30: a run that has started ends: ingest reaches its normal end or      *)
(* fails and the process exits; until then it has requested the pages      *)
(* 0, 1, ... each once, never more than max(1, ceil(T / pageSize)) of them *)
(* for the first response's total T.                                       *)
C30_RunTerminates ==
  /\ Started(runs[1]) ~> Ended(runs[1])
  /\ [](\A r \in Runs :
          /\ \A a, b \in 1..Len(runs[r].fetched) :
               a # b => runs[r].fetched[a] # runs[r].fetched[b]
          /\ runs[r].total # NoTotal => Len(runs[r].fetched) <= ExpectedFetches(runs[r].total))

(* C30 witness: a run has ended normally after three page fetches, the     *)
(* most its first total allows, every task of it completed.                *)
C30_Witness ==
  \E r \in Runs :
    /\ runs[r].pc = "finished"
    /\ runs[r].total = MaxTotal
    /\ runs[r].fetched = <<0, 1, 2>>
    /\ Len(runs[r].tasks) > 0
    /\ \A k \in TaskIndex(r) : runs[r].tasks[k].pc = "done"

====
